---- MODULE Spec2Model ----
(***************************************************************************)
(* decomp-permuter: the search coordinator of src/main.py and the server   *)
(* of src/net/server.py.                                                   *)
(*                                                                         *)
(*   SpecCycle   cycle_seeds alone, one loop iteration per step.           *)
(*   Spec        run_inner: the single-threaded loop, and the coordinator  *)
(*               with its local worker processes and remote sessions.      *)
(*   SpecServer  Server: its main loop, the net thread, the evaluator.     *)
(*   SpecWrite   write_candidate alone.                                    *)
(*   SpecStart   start_evaluator alone.                                    *)
(*   SpecStop    Server.stop() beside the main loop, statement by          *)
(*               statement.                                                *)
(*   SpecFrames  the frames the main loop and the writer put on the ports. *)
(*   SpecDocker  DockerPort._receive on a chunked attach stream.           *)
(*   SpecSeed    the --seed string post_score prints, parsed by run_inner. *)
(***************************************************************************)
EXTENDS Integers, Sequences, FiniteSets, TLC

\* ---------------------------------------------------------------- bounds
\* Permuters given to cycle_seeds (SpecCycle) and the longest seed iterator.
CycPermuters == 3
CycSeeds == 3

\* Permuters of a run, the longest seed iterator there, and the seeds of all
\* the permuters together.
NumPermuters == 2
MaxSeeds == 2
MaxTasks == 3
\* Local worker processes (-j) and connected remote servers (-J).
MaxThreads == 2
MaxRemote == 1
\* need_work signals one remote session sends.
MaxNeedWork == 2

\* net/server.py: permuter handles a client uses, the messages a client sends
\* over one connection, need_work messages of the evaluator, and permuters
\* the server's user removes by hand.
MaxHandles == 2
MaxClientEvents == 3
\* Events waiting on the server's main queue when a thread puts one more.
MaxQueue == 2
MaxEvalNeedWork == 1
MaxKicks == 1

\* write_candidate: the highest counter of the output directories that are in
\* perm.dir before the first call, and the calls made.
MaxCtr == 3
MaxWrites == 3

\* start_evaluator: the bytes of the sanity check, the values a byte of the
\* reply takes besides NUL, and the values of options.num_cores.
MagicLen == 1000
MaxByte == 1
MaxCores == 2

\* Server.stop() beside the main loop: the events on the main queue when
\* stop() may be called.
MaxRaceEvents == 2

\* The frames on the ports: the events the main loop handles.
MaxWireEvents == 3
\* DockerPort: the chunks of the attach stream, the bytes of data in one chunk,
\* the largest stream id tried (1 is stdout, 2 is stderr), the largest length
\* asked of _receive, and the number of _receive calls.
MaxChunks == 3
MaxData == 2
MaxStream == 3
MaxRecv == 2
MaxCalls == 2

\* The reproducer: the largest absolute value of a seed index and of an rng seed.
MaxSeedValue == 12

VARIABLES
    permuter_seeds, \* input: permuter index -> the seeds its seed_iterator() gives
    iterators,      \* cycle_seeds: the list `iterators` (perm index, seeds left)
    i,              \* cycle_seeds: the local `i`
    gen_done,       \* cycle_seeds: the generator has returned (StopIteration)
    yielded         \* history: the (permuter index, seed) pairs yielded so far

VARIABLES
    options,        \* Options: threads, use_network, stop_on_zero, abort_exceptions, print_diffs
    n_remote,       \* len(net_threads): the sessions connect_to_servers opened
    pc,             \* run_inner: where the main process is
    task_queue,     \* multiprocessing.Queue[Task]
    feedback_queue, \* multiprocessing.Queue[Feedback]
    active_workers, \* run_inner: active_workers
    found_zero,     \* run_inner: found_zero
    best_score,     \* permuter.best_score of the main process, per permuter
    iteration,      \* context.iteration
    errors,         \* context.errors
    output_dirs,    \* per permuter: the output-<score>-<ctr> directories, as <<score, ctr>>
    w_pc,           \* local worker: "get", "eval", "exited", "crashed", "interrupted"
    should_block,   \* local worker: should_block
    w_item,         \* local worker: the task it evaluates
    w_best,         \* local worker: best_score of its own (forked) copy of the
                    \* permuters; <<>> once the process has ended
    r_pc,           \* remote session: "run", "closed" (Finished put) or "interrupted"
    r_tasks,        \* remote session: the tasks sent to the server and not answered
                    \* (left as they are when the session closes)
    r_need,         \* remote session: need_work signals received so far (0 once closed)
    taken,          \* history: task -> how many times a worker has dequeued it
    wd_made,        \* history: task -> how many WorkDones were put for it
    wd_outputs,     \* history: per permuter, WorkDones received with should_output true
    wd_scored       \* history: those of them that were handed to post_score

VARIABLES
    server,         \* net/server.py: the Server object, its threads and the evaluator
    main_queue,     \* Server._main_queue
    last            \* history: the last event _main_loop handled and what was sent for it

cycle_vars == <<permuter_seeds, iterators, i, gen_done, yielded>>
main_vars == <<options, n_remote, pc, active_workers, found_zero>>
queue_vars == <<task_queue, feedback_queue>>
score_vars == <<best_score, iteration, errors, output_dirs>>
worker_vars == <<w_pc, should_block, w_item, w_best>>
remote_vars == <<r_pc, r_tasks, r_need>>
hist_vars == <<taken, wd_made, wd_outputs, wd_scored>>

server_vars == <<server, main_queue, last>>

VARIABLES
    perm_dir,       \* write_candidate: perm.dir, its output-<score>-<ctr> directories
                    \* (dirs) and, as history, what each call created (created)
    startup,        \* start_evaluator: where it is, the port, what was sent and received
    race,           \* Server.stop() beside _main_loop: Server._net_thread, the main
                    \* queue, and where each of the two threads is
    wire,           \* the frames on the evaluator port and on the net port, with the
                    \* main loop and the net thread's writer that send them
    docker,         \* DockerPort: the attach socket, _stdout_buffer, stderr, the
                    \* _receive call in progress and, as history, what was returned
    repro           \* the seed of a failed evaluation, the --seed string post_score
                    \* prints for it, and what run_inner makes of that string

unit_vars == <<perm_dir, startup, race, wire, docker, repro>>

vars == <<cycle_vars, main_vars, queue_vars, score_vars, worker_vars, remote_vars,
          hist_vars, server_vars, unit_vars>>

\* No server in this process.
ServerIdle == server = <<>> /\ main_queue = <<>> /\ last = <<>>

\* No function is looked at on its own.
NoUnits ==
    /\ perm_dir = <<>> /\ startup = <<>> /\ race = <<>> /\ wire = <<>>
    /\ docker = <<>> /\ repro = <<>>

\* ------------------------------------------------------------ primitives
\* Python's None, among tuples and among the records of the queues.
None == [type |-> "None"]

Range(s) == {s[k] : k \in 1..Len(s)}

\* del s[k]  (k is 1-based here; the code's index is k - 1)
DelAt(s, k) == [n \in 1..(Len(s) - 1) |-> IF n < k THEN s[n] ELSE s[n + 1]]

\* A finite seed iterator of n seeds: the seeds 1, 2, .., n in this order.
SeedsOf(n) == [k \in 1..n |-> k]

\* iterators.append(zip(itertools.repeat(perm_ind), it)) for perm_ind = 0, 1, ..
MakeIterators(seeds) ==
    [k \in 1..Len(seeds) |-> [perm |-> k - 1, seeds |-> seeds[k]]]

\* ----------------------------------------------------------- cycle_seeds
\* One iteration of `while iterators:` (the caller checks iterators # <<>>).
\* Python's % gives a result in 0..len-1 for a negative left operand, as
\* TLA+'s does; `i` is stored after the `i += 1` that follows the yield.
CycleBodyWrongDelete(its, ci) ==
    LET j == ci % Len(its)
        it == its[j + 1]
    IN  IF it.seeds = <<>>
        THEN [item |-> None, iterators |-> DelAt(its, ((j + 1) % Len(its)) + 1), i |-> j - 1]
        ELSE [item |-> <<it.perm, Head(it.seeds)>>,
              iterators |-> [its EXCEPT ![j + 1].seeds = Tail(@)],
              i |-> j + 1]

CycleBody(its, ci) ==
    LET j == ci % Len(its)
        it == its[j + 1]
    IN  IF it.seeds = <<>>
        THEN [item |-> None, iterators |-> DelAt(its, j + 1), i |-> j - 1]
        ELSE [item |-> <<it.perm, Head(it.seeds)>>,
              iterators |-> [its EXCEPT ![j + 1].seeds = Tail(@)],
              i |-> j + 1]

\* next(perm_seed_iter, None): run the loop up to the next yield, or to its end.
RECURSIVE NextSeed(_, _)
NextSeed(its, ci) ==
    IF its = <<>>
    THEN [item |-> None, iterators |-> its, i |-> ci]
    ELSE LET r == CycleBody(its, ci)
         IN  IF r.item = None THEN NextSeed(r.iterators, r.i) ELSE r

\* ------------------------------------------------- SpecCycle: cycle_seeds
CycleInit ==
    /\ permuter_seeds \in
         {[k \in 1..CycPermuters |-> SeedsOf(lens[k])] :
            lens \in [1..CycPermuters -> 0..CycSeeds]}
    /\ iterators = MakeIterators(permuter_seeds)
    /\ i = 0
    /\ gen_done = FALSE
    /\ yielded = <<>>
    /\ options = [threads |-> 0, use_network |-> FALSE, stop_on_zero |-> FALSE,
                  abort_exceptions |-> FALSE, print_diffs |-> FALSE]
    /\ n_remote = 0
    /\ pc = "cycle_seeds"
    /\ task_queue = <<>> /\ feedback_queue = <<>>
    /\ active_workers = 0 /\ found_zero = FALSE
    /\ best_score = <<>> /\ iteration = 0 /\ errors = 0 /\ output_dirs = <<>>
    /\ w_pc = <<>> /\ should_block = <<>> /\ w_item = <<>> /\ w_best = <<>>
    /\ r_pc = <<>> /\ r_tasks = <<>> /\ r_need = <<>>
    /\ taken = <<>> /\ wd_made = <<>> /\ wd_outputs = <<>> /\ wd_scored = <<>>
    /\ ServerIdle
    /\ NoUnits

\* item is None: del iterators[i]; i -= 1
CycleRemove ==
    /\ ~gen_done /\ iterators # <<>>
    /\ LET r == CycleBody(iterators, i)
       IN  /\ r.item = None
           /\ iterators' = r.iterators
           /\ i' = r.i
    /\ UNCHANGED <<permuter_seeds, gen_done, yielded>>
    /\ UNCHANGED <<main_vars, queue_vars, score_vars, worker_vars, remote_vars, hist_vars>>
    /\ UNCHANGED <<server_vars, unit_vars>>

\* yield item; i += 1
CycleYield ==
    /\ ~gen_done /\ iterators # <<>>
    /\ LET r == CycleBody(iterators, i)
       IN  /\ r.item # None
           /\ iterators' = r.iterators
           /\ i' = r.i
           /\ yielded' = Append(yielded, r.item)
    /\ UNCHANGED <<permuter_seeds, gen_done>>
    /\ UNCHANGED <<main_vars, queue_vars, score_vars, worker_vars, remote_vars, hist_vars>>
    /\ UNCHANGED <<server_vars, unit_vars>>

\* `while iterators:` is false: the generator returns.
CycleEnd ==
    /\ ~gen_done /\ iterators = <<>>
    /\ gen_done' = TRUE
    /\ UNCHANGED <<permuter_seeds, iterators, i, yielded>>
    /\ UNCHANGED <<main_vars, queue_vars, score_vars, worker_vars, remote_vars, hist_vars>>
    /\ UNCHANGED <<server_vars, unit_vars>>

CycleNext == CycleRemove \/ CycleYield \/ CycleEnd

SpecCycle == CycleInit /\ [][CycleNext]_vars

\* --------------------------------------------------- claims on cycle_seeds
CycPerms == 0..(CycPermuters - 1)

\* The pairs of permuter p among those yielded, in the order yielded.
YieldedOf(p) == SelectSeq(yielded, LAMBDA x : x[1] = p)

\* Permuter q's iterator still has a seed to give.
HasSeedsLeft(q) ==
    \E k \in 1..Len(iterators) : iterators[k].perm = q /\ iterators[k].seeds # <<>>

\* C1: cycle_seeds is strictly round-robin: between the last yield of a
\* permuter p and its previous yield, every other permuter whose iterator is
\* not exhausted has yielded exactly once (also right after a removal).
C1_StrictRoundRobin ==
    LET b == Len(yielded)
    IN  b >= 2 =>
        LET p == yielded[b][1]
            earlier == {a \in 1..(b - 1) : yielded[a][1] = p}
        IN  earlier # {} =>
            LET a == CHOOSE x \in earlier : \A y \in earlier : y <= x
            IN  \A q \in CycPerms \ {p} :
                    HasSeedsLeft(q) =>
                        Cardinality({k \in (a + 1)..(b - 1) : yielded[k][1] = q}) = 1

\* C2: with finite iterators every (permuter index, seed) pair is yielded
\* exactly once, each permuter's seeds in its iterator's order, nothing is
\* skipped or repeated around a removal, and the generator then ends.
C2_EachPairOnceInOrder ==
    /\ \A p \in CycPerms :
         LET ys == YieldedOf(p)
             all == permuter_seeds[p + 1]
         IN  /\ Len(ys) <= Len(all)
             /\ \A k \in 1..Len(ys) : ys[k] = <<p, all[k]>>
             /\ gen_done => Len(ys) = Len(all)
    /\ (gen_done \/ ENABLED CycleNext)

\* The generator has ended after a run in which an exhausted iterator was
\* removed while two longer ones were still in the rotation.
C2_Witness ==
    /\ gen_done
    /\ Len(permuter_seeds[2]) = 1
    /\ Len(permuter_seeds[1]) = 3
    /\ Len(permuter_seeds[3]) = 2
    /\ Len(yielded) = 6

\* ------------------------------------------------------ results and scores
Perms == 0..(NumPermuters - 1)
Workers == 1..options.threads
Remotes == 1..n_remote

\* Scorer.PENALTY_INF, above every score the scorer gives a compiled candidate.
ScoreValues == {0, 1}
PENALTY_INF == 2
\* permuter.base_score, the score of base.c; best_score starts there.
base_score(p) == 1

EvalError == [kind |-> "EvalError"]
Candidate(s) == [kind |-> "CandidateResult", score |-> s]
\* What permuter.try_eval_candidate(seed) may return.
EvalResults == {EvalError} \cup {Candidate(s) : s \in ScoreValues \cup {PENALTY_INF}}

Work(p, seed) == [type |-> "Work", perm |-> p, seed |-> seed]
Finished == [type |-> "Finished"]
NeedMoreWork == [type |-> "NeedMoreWork"]
Message == [type |-> "Message"]
\* WorkDone(perm_index, result); `seed` is history, the task it answers.
WorkDone(p, seed, result) ==
    [type |-> "WorkDone", perm |-> p, seed |-> seed, result |-> result]

AllTasks == {<<p, s>> : p \in Perms, s \in 1..MaxSeeds}

\* Permuter.should_output: an improvement on or a tie with the base score, or
\* every source is wanted (need_all_sources = options.print_diffs).
should_output(p, result, need_all_sources) ==
    result.score <= base_score(p) \/ need_all_sources

\* Permuter.record_result: best_score is the best score seen so far.
record_result(best, result) == IF result.score < best THEN result.score ELSE best

\* Mutant: no retry on FileExistsError, output-<score>-1 is used again.
write_candidateReuses(dirs, result) == dirs \cup {<<result.score, 1>>}

\* Mutant: ctr is one more than the number of output-<score>-* directories,
\* and an existing directory is taken as it is.
write_candidateCounts(dirs, result) ==
    dirs \cup {<<result.score, Cardinality({d \in dirs : d[1] = result.score}) + 1>>}

\* write_candidate: mkdir output-<score>-<ctr> with the first ctr >= 1 that is free.
write_candidate(dirs, result) ==
    LET ctr == CHOOSE c \in 1..(Cardinality(dirs) + 1) :
                 /\ <<result.score, c>> \notin dirs
                 /\ \A d \in 1..(c - 1) : <<result.score, d>> \in dirs
    IN  dirs \cup {<<result.score, ctr>>}

\* The state post_score reads and writes.
Context == [best_score |-> best_score, iteration |-> iteration, errors |-> errors,
            output_dirs |-> output_dirs]

\* Mutant: best_score is set to the score of every result that is written out.
post_scoreSetsBest(ctx, opts, p, result) ==
    IF result.kind = "EvalError"
    THEN [ctx |-> ctx, zero |-> FALSE, exit |-> opts.abort_exceptions]
    ELSE LET counted == [ctx EXCEPT
                 !.iteration = @ + 1,
                 !.errors = IF result.score = PENALTY_INF THEN @ + 1 ELSE @]
             after == IF should_output(p, result, opts.print_diffs)
                      THEN [counted EXCEPT
                              !.best_score[p] = result.score,
                              !.output_dirs[p] = write_candidate(@, result)]
                      ELSE counted
         IN  [ctx |-> after, zero |-> (result.score = 0), exit |-> FALSE]

\* Mutant: the return value is should_output's, not (score == 0).
post_scoreReturnsOutput(ctx, opts, p, result) ==
    IF result.kind = "EvalError"
    THEN [ctx |-> ctx, zero |-> FALSE, exit |-> opts.abort_exceptions]
    ELSE LET counted == [ctx EXCEPT
                 !.iteration = @ + 1,
                 !.errors = IF result.score = PENALTY_INF THEN @ + 1 ELSE @]
             after == IF should_output(p, result, opts.print_diffs)
                      THEN [counted EXCEPT
                              !.best_score[p] = record_result(@, result),
                              !.output_dirs[p] = write_candidate(@, result)]
                      ELSE counted
         IN  [ctx |-> after, zero |-> should_output(p, result, opts.print_diffs),
              exit |-> FALSE]

\* Mutant: an EvalError is counted as an iteration.
post_scoreCountsEvalError(ctx, opts, p, result) ==
    IF result.kind = "EvalError"
    THEN [ctx |-> [ctx EXCEPT !.iteration = @ + 1],
          zero |-> FALSE, exit |-> opts.abort_exceptions]
    ELSE LET counted == [ctx EXCEPT
                 !.iteration = @ + 1,
                 !.errors = IF result.score = PENALTY_INF THEN @ + 1 ELSE @]
             after == IF should_output(p, result, opts.print_diffs)
                      THEN [counted EXCEPT
                              !.best_score[p] = record_result(@, result),
                              !.output_dirs[p] = write_candidate(@, result)]
                      ELSE counted
         IN  [ctx |-> after, zero |-> (result.score = 0), exit |-> FALSE]

\* post_score(context, permuter, result, who): the context after the call, its
\* return value (`zero`), and whether it left through sys.exit(1) (`exit`).
post_score(ctx, opts, p, result) ==
    IF result.kind = "EvalError"
    THEN [ctx |-> ctx, zero |-> FALSE, exit |-> opts.abort_exceptions]
    ELSE LET counted == [ctx EXCEPT
                 !.iteration = @ + 1,
                 !.errors = IF result.score = PENALTY_INF THEN @ + 1 ELSE @]
             after == IF should_output(p, result, opts.print_diffs)
                      THEN [counted EXCEPT
                              !.best_score[p] = record_result(@, result),
                              !.output_dirs[p] = write_candidate(@, result)]
                      ELSE counted
         IN  [ctx |-> after, zero |-> (result.score = 0), exit |-> FALSE]

\* The context variables take the values post_score left.
SetContext(ctx) ==
    /\ best_score' = ctx.best_score
    /\ iteration' = ctx.iteration
    /\ errors' = ctx.errors
    /\ output_dirs' = ctx.output_dirs

\* History: a WorkDone whose result should_output accepts has been received,
\* and handed to post_score (scored) or not.
NoteReceived(fb, scored) ==
    LET accepted == /\ fb.result.kind = "CandidateResult"
                    /\ should_output(fb.perm, fb.result, options.print_diffs)
    IN  /\ wd_outputs' = IF accepted THEN [wd_outputs EXCEPT ![fb.perm] = @ + 1]
                         ELSE wd_outputs
        /\ wd_scored' = IF accepted /\ scored THEN [wd_scored EXCEPT ![fb.perm] = @ + 1]
                        ELSE wd_scored

\* ------------------------------------------------------------ run_inner
RECURSIVE SumLens(_, _)
SumLens(lens, n) == IF n = 0 THEN 0 ELSE lens[n] + SumLens(lens, n - 1)

RunInit ==
    /\ options \in {o \in [threads : 0..MaxThreads, use_network : BOOLEAN,
                          stop_on_zero : BOOLEAN, abort_exceptions : BOOLEAN,
                          print_diffs : BOOLEAN] :
                      o.threads = 0 => o.use_network}
    /\ n_remote \in (IF options.use_network THEN 0..MaxRemote ELSE {0})
    /\ permuter_seeds \in
         {[k \in 1..NumPermuters |-> SeedsOf(lens[k])] :
            lens \in {l \in [1..NumPermuters -> 0..MaxSeeds] : SumLens(l, NumPermuters) <= MaxTasks}}
    /\ iterators = MakeIterators(permuter_seeds)
    /\ i = 0
    /\ gen_done = FALSE
    /\ yielded = <<>>
    /\ pc = "start"
    /\ task_queue = <<>> /\ feedback_queue = <<>>
    /\ active_workers = 0 /\ found_zero = FALSE
    /\ best_score = [p \in Perms |-> base_score(p)]
    /\ iteration = 0 /\ errors = 0
    /\ output_dirs = [p \in Perms |-> {}]
    /\ w_pc = [w \in Workers |-> "unborn"]
    /\ should_block = [w \in Workers |-> FALSE]
    /\ w_item = [w \in Workers |-> None]
    /\ w_best = [w \in Workers |-> [p \in Perms |-> base_score(p)]]
    /\ r_pc = [r \in Remotes |-> "unborn"]
    /\ r_tasks = [r \in Remotes |-> {}]
    /\ r_need = [r \in Remotes |-> 0]
    /\ taken = [t \in AllTasks |-> 0]
    /\ wd_made = [t \in AllTasks |-> 0]
    /\ wd_outputs = [p \in Perms |-> 0]
    /\ wd_scored = [p \in Perms |-> 0]
    /\ ServerIdle
    /\ NoUnits

\* perm_seed_iter's state and the history of what it gave.
SetGenerator(r) ==
    /\ iterators' = r.iterators
    /\ i' = r.i
    /\ gen_done' = (r.item = None)
    /\ yielded' = IF r.item = None THEN yielded ELSE Append(yielded, r.item)
    /\ UNCHANGED permuter_seeds

\* options.threads == 1 and not options.use_network
StartSingle ==
    /\ pc = "start"
    /\ options.threads = 1 /\ ~options.use_network
    /\ pc' = "single"
    /\ UNCHANGED <<options, n_remote, active_workers, found_zero>>
    /\ UNCHANGED <<cycle_vars, queue_vars, score_vars, worker_vars, remote_vars, hist_vars>>
    /\ UNCHANGED <<server_vars, unit_vars>>

\* One iteration of `for permuter_index, seed in perm_seed_iter`.
SingleStep ==
    /\ pc = "single"
    /\ LET r == NextSeed(iterators, i)
       IN  /\ SetGenerator(r)
           /\ IF r.item = None
              THEN /\ pc' = "done"
                   /\ UNCHANGED <<found_zero, score_vars>>
              ELSE \E result \in EvalResults :
                     LET ps == post_score(Context, options, r.item[1], result)
                     IN  /\ SetContext(ps.ctx)
                         /\ found_zero' = (found_zero \/ (ps.zero /\ ~ps.exit))
                         /\ pc' = IF ps.exit THEN "exit1"
                                  ELSE IF ps.zero /\ options.stop_on_zero THEN "done"
                                  ELSE "single"
    /\ UNCHANGED <<options, n_remote, active_workers>>
    /\ UNCHANGED <<queue_vars, worker_vars, remote_vars, hist_vars>>
    /\ UNCHANGED <<server_vars, unit_vars>>

\* Mutant: no `if not active_workers` after the workers are started.
StartWorkersUnchecked ==
    /\ pc = "start"
    /\ ~(options.threads = 1 /\ ~options.use_network)
    /\ active_workers' = n_remote + options.threads
    /\ pc' = "feed"
    /\ w_pc' = [w \in Workers |-> "get"]
    /\ r_pc' = [r \in Remotes |-> "run"]
    /\ UNCHANGED <<options, n_remote, found_zero, should_block, w_item, w_best,
                   r_tasks, r_need>>
    /\ UNCHANGED <<cycle_vars, queue_vars, score_vars, hist_vars>>
    /\ UNCHANGED <<server_vars, unit_vars>>

\* The queues are created, the sessions opened and the worker processes
\* started; active_workers = len(net_threads) + len(processes).
StartWorkers ==
    /\ pc = "start"
    /\ ~(options.threads = 1 /\ ~options.use_network)
    /\ active_workers' = n_remote + options.threads
    /\ pc' = IF active_workers' = 0 THEN "exit1" ELSE "feed"
    /\ w_pc' = [w \in Workers |-> "get"]
    /\ r_pc' = [r \in Remotes |-> "run"]
    /\ UNCHANGED <<options, n_remote, found_zero, should_block, w_item, w_best,
                   r_tasks, r_need>>
    /\ UNCHANGED <<cycle_vars, queue_vars, score_vars, hist_vars>>
    /\ UNCHANGED <<server_vars, unit_vars>>

\* task = next(perm_seed_iter, None); if task is None: break; task_queue.put(task)
PutNextTask ==
    LET r == NextSeed(iterators, i)
    IN  /\ SetGenerator(r)
        /\ IF r.item = None
           THEN /\ pc' = "signal"
                /\ task_queue' = task_queue
           ELSE /\ pc' = "feed"
                /\ task_queue' = Append(task_queue, Work(r.item[1], r.item[2]))

\* `while active_workers > 0` of the feeding loop is false.
FeedExit ==
    /\ pc = "feed" /\ active_workers = 0
    /\ pc' = "signal"
    /\ UNCHANGED <<options, n_remote, active_workers, found_zero>>
    /\ UNCHANGED <<cycle_vars, queue_vars, score_vars, worker_vars, remote_vars, hist_vars>>
    /\ UNCHANGED <<server_vars, unit_vars>>

\* Mutant: a Finished ends the feeding loop.
FeedFinishedBreaks ==
    /\ pc = "feed" /\ active_workers > 0
    /\ feedback_queue # <<>> /\ Head(feedback_queue).type = "Finished"
    /\ feedback_queue' = Tail(feedback_queue)
    /\ active_workers' = active_workers - 1
    /\ pc' = "signal"
    /\ UNCHANGED <<options, n_remote, found_zero, task_queue>>
    /\ UNCHANGED <<cycle_vars, score_vars, worker_vars, remote_vars, hist_vars>>
    /\ UNCHANGED <<server_vars, unit_vars>>

\* Feeding loop, a Finished: process_finish, continue.
FeedFinished ==
    /\ pc = "feed" /\ active_workers > 0
    /\ feedback_queue # <<>> /\ Head(feedback_queue).type = "Finished"
    /\ feedback_queue' = Tail(feedback_queue)
    /\ active_workers' = active_workers - 1
    /\ UNCHANGED <<options, n_remote, pc, found_zero, task_queue>>
    /\ UNCHANGED <<cycle_vars, score_vars, worker_vars, remote_vars, hist_vars>>
    /\ UNCHANGED <<server_vars, unit_vars>>

\* Feeding loop, a Message or a NeedMoreWork: put one more task in the queue.
FeedRequest ==
    /\ pc = "feed" /\ active_workers > 0
    /\ feedback_queue # <<>>
    /\ Head(feedback_queue).type \in {"NeedMoreWork", "Message"}
    /\ feedback_queue' = Tail(feedback_queue)
    /\ PutNextTask
    /\ UNCHANGED <<options, n_remote, active_workers, found_zero>>
    /\ UNCHANGED <<score_vars, worker_vars, remote_vars, hist_vars>>
    /\ UNCHANGED <<server_vars, unit_vars>>

\* Feeding loop, a WorkDone: process_result, then one more task unless the
\* score is 0 with stop_on_zero (break) or post_score left through sys.exit.
FeedResult ==
    /\ pc = "feed" /\ active_workers > 0
    /\ feedback_queue # <<>> /\ Head(feedback_queue).type = "WorkDone"
    /\ feedback_queue' = Tail(feedback_queue)
    /\ LET fb == Head(feedback_queue)
           ps == post_score(Context, options, fb.perm, fb.result)
       IN  /\ NoteReceived(fb, TRUE)
           /\ SetContext(ps.ctx)
           /\ found_zero' = (found_zero \/ (ps.zero /\ ~ps.exit))
           /\ IF ps.exit
              THEN /\ pc' = "exit1"
                   /\ UNCHANGED <<cycle_vars, task_queue>>
              ELSE IF ps.zero /\ options.stop_on_zero
              THEN /\ pc' = "signal"
                   /\ UNCHANGED <<cycle_vars, task_queue>>
              ELSE PutNextTask
    /\ UNCHANGED <<options, n_remote, active_workers>>
    /\ UNCHANGED <<worker_vars, remote_vars, taken, wd_made>>
    /\ UNCHANGED <<server_vars, unit_vars>>

\* for i in range(active_workers): task_queue.put(Finished())
SignalStop ==
    /\ pc = "signal"
    /\ task_queue' = task_queue \o [k \in 1..active_workers |-> Finished]
    /\ pc' = "drain"
    /\ UNCHANGED <<options, n_remote, active_workers, found_zero, feedback_queue>>
    /\ UNCHANGED <<cycle_vars, score_vars, worker_vars, remote_vars, hist_vars>>
    /\ UNCHANGED <<server_vars, unit_vars>>

\* `while active_workers > 0` of the final loop is false.
DrainExit ==
    /\ pc = "drain" /\ active_workers = 0
    /\ pc' = "join"
    /\ UNCHANGED <<options, n_remote, active_workers, found_zero>>
    /\ UNCHANGED <<cycle_vars, queue_vars, score_vars, worker_vars, remote_vars, hist_vars>>
    /\ UNCHANGED <<server_vars, unit_vars>>

\* Final loop, a Finished: process_finish.
DrainFinished ==
    /\ pc = "drain" /\ active_workers > 0
    /\ feedback_queue # <<>> /\ Head(feedback_queue).type = "Finished"
    /\ feedback_queue' = Tail(feedback_queue)
    /\ active_workers' = active_workers - 1
    /\ UNCHANGED <<options, n_remote, pc, found_zero, task_queue>>
    /\ UNCHANGED <<cycle_vars, score_vars, worker_vars, remote_vars, hist_vars>>
    /\ UNCHANGED <<server_vars, unit_vars>>

\* Final loop, a Message or a NeedMoreWork: nothing to do.
DrainRequest ==
    /\ pc = "drain" /\ active_workers > 0
    /\ feedback_queue # <<>>
    /\ Head(feedback_queue).type \in {"NeedMoreWork", "Message"}
    /\ feedback_queue' = Tail(feedback_queue)
    /\ UNCHANGED <<options, n_remote, pc, active_workers, found_zero, task_queue>>
    /\ UNCHANGED <<cycle_vars, score_vars, worker_vars, remote_vars, hist_vars>>
    /\ UNCHANGED <<server_vars, unit_vars>>

\* Mutant: the final loop scores every WorkDone.
DrainResultAlwaysScores ==
    /\ pc = "drain" /\ active_workers > 0
    /\ feedback_queue # <<>> /\ Head(feedback_queue).type = "WorkDone"
    /\ feedback_queue' = Tail(feedback_queue)
    /\ LET fb == Head(feedback_queue)
           ps == post_score(Context, options, fb.perm, fb.result)
       IN  /\ NoteReceived(fb, TRUE)
           /\ SetContext(ps.ctx)
           /\ found_zero' = (found_zero \/ (ps.zero /\ ~ps.exit))
           /\ pc' = IF ps.exit THEN "exit1" ELSE "drain"
    /\ UNCHANGED <<options, n_remote, active_workers, task_queue>>
    /\ UNCHANGED <<cycle_vars, worker_vars, remote_vars, taken, wd_made>>
    /\ UNCHANGED <<server_vars, unit_vars>>

\* Final loop, a WorkDone: scored unless stop_on_zero and found_zero.
DrainResult ==
    /\ pc = "drain" /\ active_workers > 0
    /\ feedback_queue # <<>> /\ Head(feedback_queue).type = "WorkDone"
    /\ feedback_queue' = Tail(feedback_queue)
    /\ LET fb == Head(feedback_queue)
           ps == post_score(Context, options, fb.perm, fb.result)
       IN  /\ NoteReceived(fb, ~(options.stop_on_zero /\ found_zero))
           /\ IF ~(options.stop_on_zero /\ found_zero)
              THEN /\ SetContext(ps.ctx)
                   /\ found_zero' = (found_zero \/ (ps.zero /\ ~ps.exit))
                   /\ pc' = IF ps.exit THEN "exit1" ELSE "drain"
              ELSE UNCHANGED <<score_vars, found_zero, pc>>
    /\ UNCHANGED <<options, n_remote, active_workers, task_queue>>
    /\ UNCHANGED <<cycle_vars, worker_vars, remote_vars, taken, wd_made>>
    /\ UNCHANGED <<server_vars, unit_vars>>

\* p.join() for every process and t.join() for every net thread.
JoinWorkers ==
    /\ pc = "join"
    /\ \A w \in Workers : w_pc[w] \in {"exited", "crashed"}
    /\ \A r \in Remotes : r_pc[r] = "closed"
    /\ pc' = "done"
    /\ UNCHANGED <<options, n_remote, active_workers, found_zero>>
    /\ UNCHANGED <<cycle_vars, queue_vars, score_vars, worker_vars, remote_vars, hist_vars>>
    /\ UNCHANGED <<server_vars, unit_vars>>

\* ------------------------------------------------- multiprocess_worker
\* input_queue.get(block=False) on an empty queue raises queue.Empty (it
\* returns no None); the worker catches KeyboardInterrupt only, so the
\* exception ends the process before it has put anything.
WorkerGetEmpty(w) ==
    /\ w_pc[w] = "get" /\ ~should_block[w]
    /\ task_queue = <<>>
    /\ w_pc' = [w_pc EXCEPT ![w] = "crashed"]
    /\ w_best' = [w_best EXCEPT ![w] = <<>>]
    /\ UNCHANGED <<should_block, w_item>>
    /\ UNCHANGED <<cycle_vars, main_vars, queue_vars, score_vars, remote_vars, hist_vars>>
    /\ UNCHANGED <<server_vars, unit_vars>>

\* input_queue.get(block=should_block) gives an item (a blocking get waits
\* for one); a None item asks for more work, a Finished is forwarded and the
\* loop left, a task is taken for evaluation.
WorkerGetItem(w) ==
    /\ w_pc[w] = "get"
    /\ task_queue # <<>>
    /\ task_queue' = Tail(task_queue)
    /\ LET queue_item == Head(task_queue)
       IN  IF queue_item = None
           THEN /\ feedback_queue' = Append(feedback_queue, NeedMoreWork)
                /\ should_block' = [should_block EXCEPT ![w] = TRUE]
                /\ UNCHANGED <<w_pc, w_item, w_best, taken>>
           ELSE /\ should_block' = [should_block EXCEPT ![w] = FALSE]
                /\ IF queue_item.type = "Finished"
                   THEN /\ feedback_queue' = Append(feedback_queue, Finished)
                        /\ w_pc' = [w_pc EXCEPT ![w] = "exited"]
                        /\ w_best' = [w_best EXCEPT ![w] = <<>>]
                        /\ UNCHANGED <<w_item, taken>>
                   ELSE /\ w_pc' = [w_pc EXCEPT ![w] = "eval"]
                        /\ w_item' = [w_item EXCEPT ![w] = queue_item]
                        /\ UNCHANGED w_best
                        /\ taken' = [taken EXCEPT
                               ![<<queue_item.perm, queue_item.seed>>] = @ + 1]
                        /\ UNCHANGED feedback_queue
    /\ UNCHANGED <<wd_made, wd_outputs, wd_scored>>
    /\ UNCHANGED <<cycle_vars, main_vars, score_vars, remote_vars>>
    /\ UNCHANGED <<server_vars, unit_vars>>

\* Mutant: a worker reports no WorkDone for an EvalError.
WorkerEvalDropsError(w) ==
    /\ w_pc[w] = "eval"
    /\ \E result \in EvalResults :
         LET p == w_item[w].perm
         IN  /\ w_best' =
                   IF /\ result.kind = "CandidateResult"
                      /\ should_output(p, result, options.print_diffs)
                   THEN [w_best EXCEPT ![w][p] = record_result(@, result)]
                   ELSE w_best
             /\ IF result.kind = "EvalError"
                THEN UNCHANGED <<feedback_queue, wd_made>>
                ELSE /\ feedback_queue' =
                           Append(feedback_queue, WorkDone(p, w_item[w].seed, result))
                     /\ wd_made' = [wd_made EXCEPT ![<<p, w_item[w].seed>>] = @ + 1]
    /\ w_pc' = [w_pc EXCEPT ![w] = "get"]
    /\ w_item' = [w_item EXCEPT ![w] = None]
    /\ UNCHANGED <<should_block, task_queue, taken, wd_outputs, wd_scored>>
    /\ UNCHANGED <<cycle_vars, main_vars, score_vars, remote_vars>>
    /\ UNCHANGED <<server_vars, unit_vars>>

\* result = permuter.try_eval_candidate(seed); record_result on the worker's
\* own copy of the permuter; output_queue.put(WorkDone(permuter_index, result))
WorkerEval(w) ==
    /\ w_pc[w] = "eval"
    /\ \E result \in EvalResults :
         LET p == w_item[w].perm
         IN  /\ w_best' =
                   IF /\ result.kind = "CandidateResult"
                      /\ should_output(p, result, options.print_diffs)
                   THEN [w_best EXCEPT ![w][p] = record_result(@, result)]
                   ELSE w_best
             /\ feedback_queue' =
                   Append(feedback_queue, WorkDone(p, w_item[w].seed, result))
             /\ wd_made' = [wd_made EXCEPT ![<<p, w_item[w].seed>>] = @ + 1]
    /\ w_pc' = [w_pc EXCEPT ![w] = "get"]
    /\ w_item' = [w_item EXCEPT ![w] = None]
    /\ UNCHANGED <<should_block, task_queue, taken, wd_outputs, wd_scored>>
    /\ UNCHANGED <<cycle_vars, main_vars, score_vars, remote_vars>>
    /\ UNCHANGED <<server_vars, unit_vars>>

\* ------------------------------------------------------ remote sessions
\* The server's need_work: the reader thread puts a NeedMoreWork.
RemoteNeedWork(r) ==
    /\ r_pc[r] = "run" /\ r_need[r] < MaxNeedWork
    /\ r_need' = [r_need EXCEPT ![r] = @ + 1]
    /\ feedback_queue' = Append(feedback_queue, NeedMoreWork)
    /\ UNCHANGED <<r_pc, r_tasks, task_queue>>
    /\ UNCHANGED <<cycle_vars, main_vars, score_vars, worker_vars, hist_vars>>
    /\ UNCHANGED <<server_vars, unit_vars>>

\* The writer thread dequeues a task and sends it; a Finished ends the session.
RemoteTake(r) ==
    /\ r_pc[r] = "run"
    /\ task_queue # <<>>
    /\ task_queue' = Tail(task_queue)
    /\ LET item == Head(task_queue)
       IN  IF item.type = "Finished"
           THEN /\ feedback_queue' = Append(feedback_queue, Finished)
                /\ r_pc' = [r_pc EXCEPT ![r] = "closed"]
                /\ r_need' = [r_need EXCEPT ![r] = 0]
                /\ UNCHANGED <<r_tasks, taken>>
           ELSE /\ r_tasks' = [r_tasks EXCEPT ![r] = @ \cup {item}]
                /\ taken' = [taken EXCEPT ![<<item.perm, item.seed>>] = @ + 1]
                /\ UNCHANGED <<feedback_queue, r_pc, r_need>>
    /\ UNCHANGED <<wd_made, wd_outputs, wd_scored>>
    /\ UNCHANGED <<cycle_vars, main_vars, score_vars, worker_vars>>
    /\ UNCHANGED <<server_vars, unit_vars>>

\* The server's result for a task: the reader thread puts a WorkDone.
RemoteWorkDone(r) ==
    /\ r_pc[r] = "run"
    /\ \E item \in r_tasks[r], result \in EvalResults :
         /\ r_tasks' = [r_tasks EXCEPT ![r] = @ \ {item}]
         /\ feedback_queue' =
               Append(feedback_queue, WorkDone(item.perm, item.seed, result))
         /\ wd_made' = [wd_made EXCEPT ![<<item.perm, item.seed>>] = @ + 1]
    /\ UNCHANGED <<r_pc, r_need, task_queue, taken, wd_outputs, wd_scored>>
    /\ UNCHANGED <<cycle_vars, main_vars, score_vars, worker_vars>>
    /\ UNCHANGED <<server_vars, unit_vars>>

\* EOF or a protocol error: the reader puts Finished(reason), the writer is closed.
RemoteDisconnect(r) ==
    /\ r_pc[r] = "run"
    /\ r_pc' = [r_pc EXCEPT ![r] = "closed"]
    /\ r_need' = [r_need EXCEPT ![r] = 0]
    /\ feedback_queue' = Append(feedback_queue, Finished)
    /\ UNCHANGED <<r_tasks, task_queue>>
    /\ UNCHANGED <<cycle_vars, main_vars, score_vars, worker_vars, hist_vars>>
    /\ UNCHANGED <<server_vars, unit_vars>>

\* ------------------------------------------------------------ run, Ctrl+C
\* KeyboardInterrupt goes to all the processes. run() catches it around
\* run_inner and leaves through sys.exit (0, or 1 when the last heartbeat is
\* over 5 seconds old); a worker catches it, cancels the queue threads' join
\* and returns. The end of the main process ends the session threads.
Interrupt ==
    /\ pc \in {"single", "feed", "signal", "drain", "join"}
    /\ pc' = "interrupted"
    /\ w_pc' = [w \in Workers |->
                  IF w_pc[w] \in {"get", "eval"} THEN "interrupted" ELSE w_pc[w]]
    /\ w_best' = [w \in Workers |-> <<>>]
    /\ r_pc' = [r \in Remotes |->
                  IF r_pc[r] = "run" THEN "interrupted" ELSE r_pc[r]]
    /\ r_need' = [r \in Remotes |-> 0]
    /\ UNCHANGED <<options, n_remote, active_workers, found_zero, should_block,
                   w_item, r_tasks>>
    /\ UNCHANGED <<cycle_vars, queue_vars, score_vars, hist_vars>>
    /\ UNCHANGED <<server_vars, unit_vars>>

\* The steps of the program itself, without a signal from outside.
Step ==
    \/ StartSingle \/ SingleStep \/ StartWorkers
    \/ FeedExit \/ FeedFinished \/ FeedRequest \/ FeedResult
    \/ SignalStop
    \/ DrainExit \/ DrainFinished \/ DrainRequest \/ DrainResult
    \/ JoinWorkers
    \/ \E w \in Workers : WorkerGetEmpty(w) \/ WorkerGetItem(w) \/ WorkerEval(w)
    \/ \E r \in Remotes :
         RemoteNeedWork(r) \/ RemoteTake(r) \/ RemoteWorkDone(r) \/ RemoteDisconnect(r)

Next == Step \/ Interrupt

Spec == RunInit /\ [][Next]_vars

\* ------------------------------------------------- claims on the run
MultiWorker == ~(options.threads = 1 /\ ~options.use_network)

\* The coordinator is in feedback_queue.get() and nothing is there.
CoordinatorWaits ==
    pc \in {"feed", "drain"} /\ active_workers > 0 /\ feedback_queue = <<>>

\* Worker w has given up on the task queue, or waits on it while it is empty.
WorkerStarved(w) ==
    \/ w_pc[w] = "crashed"
    \/ w_pc[w] = "get" /\ should_block[w] /\ task_queue = <<>>

\* C3: started on an empty task queue, the multi-worker run makes progress:
\* the coordinator is never left waiting on the feedback queue, with nothing
\* that can still happen, while every worker waits on or has given up on an
\* empty task queue and no task has been enqueued though there are seeds.
C3_NoStarvationDeadlock ==
    ~(/\ MultiWorker /\ options.threads > 0 /\ n_remote = 0
      /\ \E k \in 1..Len(permuter_seeds) : permuter_seeds[k] # <<>>
      /\ CoordinatorWaits
      /\ \A w \in Workers : WorkerStarved(w)
      /\ task_queue = <<>> /\ yielded = <<>>
      /\ ~ENABLED Step)

\* C4: a worker whose non-blocking dequeue finds the task queue empty puts
\* exactly one NeedMoreWork on the feedback queue and switches to a blocking
\* dequeue.
C4_EmptyProbeEmitsNeedMoreWork ==
    [][\A w \in Workers :
          (/\ w_pc[w] = "get" /\ ~should_block[w] /\ task_queue = <<>>
           /\ <<w_pc[w], should_block[w]>>' # <<w_pc[w], should_block[w]>>)
          => /\ w_pc'[w] = "get" /\ should_block'[w]
             /\ feedback_queue' = Append(feedback_queue, NeedMoreWork)]_vars

\* How often task t is being evaluated now: by a local worker (an interrupted
\* worker never ends its evaluation), or sent to a server and not answered.
InProgress(t) ==
    Cardinality({w \in Workers : /\ w_pc[w] \in {"eval", "interrupted"}
                                 /\ w_item[w] = Work(t[1], t[2])})
    + Cardinality({r \in Remotes : Work(t[1], t[2]) \in r_tasks[r]})

Enqueued(t) == Cardinality({k \in 1..Len(yielded) : yielded[k] = t})

WorkDonesQueued(t) ==
    Cardinality({k \in 1..Len(feedback_queue) :
                   /\ feedback_queue[k].type = "WorkDone"
                   /\ <<feedback_queue[k].perm, feedback_queue[k].seed>> = t})

\* C6: every WorkDone answers exactly one enqueued task: a task is dequeued
\* by at most one worker and only after it was enqueued, each dequeued task
\* gives exactly one WorkDone once its evaluation is over, and there is no
\* WorkDone without a dequeued task.
C6_WorkDoneMatchesTask ==
    \A t \in AllTasks :
        /\ taken[t] <= Enqueued(t)
        /\ taken[t] <= 1
        /\ wd_made[t] + InProgress(t) = taken[t]
        /\ WorkDonesQueued(t) <= wd_made[t]

\* Two local workers evaluate two different tasks at the same time.
C6_Witness ==
    /\ options.threads >= 2
    /\ w_pc[1] = "eval" /\ w_pc[2] = "eval"
    /\ w_item[1] # w_item[2]

\* C7: best_score of the coordinator never increases, for any permuter.
C7_BestScoreNeverIncreases ==
    [][\A p \in Perms : best_score'[p] <= best_score[p]]_vars

\* In a multi-worker run a result above best_score was written out only
\* because need_all_sources is set, and a zero was recorded for the permuter.
C7_Witness ==
    /\ MultiWorker /\ options.print_diffs
    /\ \E p \in Perms :
         /\ best_score[p] = 0
         /\ <<PENALTY_INF, 1>> \in output_dirs[p]

\* C8 as stated: the output directories of permuter p are as many as the
\* WorkDones received for p with should_output true, in the feeding loop or
\* in the final loop.
C8_OutputsEqualReceived ==
    MultiWorker => \A p \in Perms : Cardinality(output_dirs[p]) = wd_outputs[p]

\* C8 amended: they are as many as the WorkDones with should_output true that
\* were scored; the received ones that were not scored came in the final
\* loop after a zero score with stop_on_zero.
C8_OutputsEqualScored ==
    MultiWorker =>
        \A p \in Perms :
            /\ Cardinality(output_dirs[p]) = wd_scored[p]
            /\ wd_scored[p] <= wd_outputs[p]
            /\ wd_scored[p] < wd_outputs[p] =>
                   /\ options.stop_on_zero /\ found_zero
                   /\ pc \notin {"start", "feed", "signal"}

\* The run is over; two directories were written for one permuter, and a
\* WorkDone that came in the final loop after the zero was not scored.
C8_Witness ==
    /\ MultiWorker /\ pc = "done"
    /\ \E p \in Perms : Cardinality(output_dirs[p]) >= 2
    /\ \E p \in Perms : wd_scored[p] < wd_outputs[p]

WorkItems(q) == Cardinality({k \in 1..Len(q) : q[k].type = "Work"})

\* C9: with stop_on_zero, once a zero score has been processed no further
\* task is enqueued and no WorkDone is scored; without a locked-in zero a
\* WorkDone taken from the feedback queue in the final loop is scored.
C9_ZeroLocksScoring ==
    [][/\ (options.stop_on_zero /\ found_zero) =>
            /\ yielded' = yielded
            /\ WorkItems(task_queue') <= WorkItems(task_queue)
            /\ score_vars' = score_vars
            /\ found_zero'
       /\ (/\ pc = "drain" /\ ~(options.stop_on_zero /\ found_zero)
           /\ feedback_queue # <<>>
           /\ Head(feedback_queue).type = "WorkDone"
           /\ Head(feedback_queue).result.kind = "CandidateResult"
           /\ feedback_queue' = Tail(feedback_queue)) =>
            iteration' = iteration + 1]_vars

\* A WorkDone that should_output accepts was discarded after the zero.
C9_Witness ==
    /\ options.stop_on_zero /\ found_zero /\ pc = "drain"
    /\ \E p \in Perms : wd_scored[p] < wd_outputs[p]

FinishedQueued(q) == Cardinality({k \in 1..Len(q) : q[k].type = "Finished"})

\* C11: once the final loop runs, every worker counted active takes a
\* Finished, forwards it and exits, so the coordinator gets to an
\* active-worker count of 0: it is never left in the final loop with a
\* positive count and no step of the program that can still happen.
C11_DrainTerminates ==
    (MultiWorker /\ pc = "drain" /\ active_workers > 0) => ENABLED Step

\* The workers and sessions whose Finished the coordinator has not consumed.
NotReported ==
    Cardinality({w \in Workers : w_pc[w] # "exited"})
    + Cardinality({r \in Remotes : r_pc[r] # "closed"})
    + FinishedQueued(feedback_queue)

\* C12: the active-worker count is the number of workers and sessions that
\* have not reported Finished; a Finished taken from the feedback queue
\* lowers it by exactly one and enqueues no task, and in the feeding loop the
\* coordinator stays in the loop.
C12_FinishedDecrementsByOne ==
    /\ []((MultiWorker /\ pc # "start") => active_workers = NotReported)
    /\ [][(/\ pc \in {"feed", "drain"}
           /\ feedback_queue # <<>>
           /\ Head(feedback_queue).type = "Finished"
           /\ feedback_queue' = Tail(feedback_queue)) =>
              /\ active_workers' = active_workers - 1
              /\ task_queue' = task_queue /\ yielded' = yielded
              /\ pc = "feed" => pc' = "feed"]_vars

\* A session has closed and its Finished was consumed in the feeding loop;
\* the coordinator still feeds, a local worker evaluates and a task waits.
C12_Witness ==
    /\ pc = "feed" /\ n_remote >= 1 /\ options.threads >= 1
    /\ \A r \in Remotes : r_pc[r] = "closed"
    /\ FinishedQueued(feedback_queue) = 0
    /\ active_workers = options.threads
    /\ \E w \in Workers : w_pc[w] = "eval"
    /\ WorkItems(task_queue) >= 1

\* C13: an interrupt starts a graceful drain, so the main process does not
\* end on it while workers are still counted active (no Finished enqueued
\* for them, their Finished not consumed).
C13_InterruptDrains ==
    pc = "interrupted" => active_workers = 0

\* The coordinator takes a WorkDone from the feedback queue and hands it to
\* process_result: in the feeding loop, or in the final loop unless a zero
\* score is locked in.
ResultScored ==
    /\ \/ pc = "feed"
       \/ pc = "drain" /\ ~(options.stop_on_zero /\ found_zero)
    /\ active_workers > 0
    /\ feedback_queue # <<>>
    /\ Head(feedback_queue).type = "WorkDone"
    /\ feedback_queue' = Tail(feedback_queue)

IsZero(result) == result.kind = "CandidateResult" /\ result.score = 0

\* C21: post_score returns true if and only if the result's score is 0: for
\* a CandidateResult it returns (score == 0) whether or not should_output
\* holds, for an EvalError without abort_exceptions it returns false; the
\* coordinator's found_zero is set by exactly the results of score 0.
C21_ReturnsTrueIffZero ==
    /\ [](pc \in {"single", "feed", "drain"} =>
            \A p \in Perms, result \in EvalResults :
                LET ps == post_score(Context, options, p, result)
                IN  ~ps.exit => (ps.zero <=> IsZero(result)))
    /\ [][ResultScored =>
            (found_zero' <=> (found_zero \/ IsZero(Head(feedback_queue).result)))]_vars

\* In the feeding loop a zero score has been found after a result of score
\* PENALTY_INF that should_output rejects.
C21_Witness ==
    /\ MultiWorker /\ pc = "feed"
    /\ found_zero /\ errors >= 1 /\ ~options.print_diffs /\ ~options.stop_on_zero
    /\ \E p \in Perms : best_score[p] = 0 /\ <<PENALTY_INF, 1>> \notin output_dirs[p]

\* The coordinator hands a WorkDone that carries an EvalError to process_result.
EvalErrorScored == ResultScored /\ Head(feedback_queue).result.kind = "EvalError"

\* C22 as stated: an evaluation error is counted in the running tally of
\* errors; it ends the run, with exit code 1, only if abort_exceptions is set,
\* and otherwise leaves best_score and the output directories as they were.
C22_EvalErrorCounted ==
    [][EvalErrorScored =>
         /\ errors' = errors + 1
         /\ IF options.abort_exceptions
            THEN pc' = "exit1"
            ELSE /\ pc' # "exit1"
                 /\ best_score' = best_score /\ output_dirs' = output_dirs]_vars

\* C22 amended: an evaluation error is printed and not counted (the iteration
\* and error counters stay as they were); it ends the run, with exit code 1,
\* if and only if abort_exceptions is set, and it never changes best_score or
\* the output directories.
C22_EvalErrorNotCounted ==
    /\ [](pc \in {"single", "feed", "drain"} =>
            \A p \in Perms :
                LET ps == post_score(Context, options, p, EvalError)
                IN  /\ ps.ctx = Context
                    /\ ps.exit = options.abort_exceptions
                    /\ ~ps.zero)
    /\ [][EvalErrorScored =>
            /\ errors' = errors /\ iteration' = iteration
            /\ best_score' = best_score /\ output_dirs' = output_dirs
            /\ (pc' = "exit1") = options.abort_exceptions
            /\ ~options.abort_exceptions => found_zero' = found_zero]_vars

\* The run ended with exit code 1 on an evaluation error (no result of score
\* PENALTY_INF came before it, and the error counter is 0).
C22_Witness ==
    /\ MultiWorker /\ pc = "exit1" /\ active_workers > 0
    /\ options.abort_exceptions
    /\ errors = 0 /\ iteration >= 1

\* What run_inner prints when it ends: "No remote servers available.
\* Exiting." before sys.exit(1) when no worker was started, "Found zero
\* score! Exiting." before it returns if found_zero, else nothing.
ExitMessage ==
    IF MultiWorker /\ pc = "exit1" /\ active_workers = 0
    THEN "No remote servers available. Exiting."
    ELSE IF pc = "done" /\ found_zero THEN "Found zero score! Exiting."
    ELSE "none"

\* No worker is left: none was started, or each has reported Finished.
NoWorkersRemain == MultiWorker /\ pc # "start" /\ active_workers = 0

\* A step of the program that puts no task in the task queue.
NoTaskEnqueued ==
    yielded' = yielded /\ WorkItems(task_queue') <= WorkItems(task_queue)

\* The coordinator goes on to its end: it has ended or its next step is there.
CoordinatorEnds ==
    \/ pc \in {"exit1", "done", "interrupted"}
    \/ ENABLED (FeedExit \/ SignalStop \/ DrainExit \/ JoinWorkers)

\* C24 as stated: if no workers remain (none at startup, or every worker has
\* reported Finished during the run), the coordinator exits with a message
\* and enqueues no further task.
C24_NoWorkersExitWithMessage ==
    /\ []((NoWorkersRemain /\ pc \in {"exit1", "done"}) => ExitMessage # "none")
    /\ [](NoWorkersRemain => CoordinatorEnds)
    /\ [][NoWorkersRemain => NoTaskEnqueued]_vars

\* C24 amended: with no worker at startup the coordinator prints "No remote
\* servers available. Exiting." and exits with code 1, nothing enqueued; once
\* every worker has reported Finished during the run it enqueues no further
\* task and goes on to return normally, with no message of its own about the
\* workers (only "Found zero score! Exiting." if a zero was found).
C24_NoWorkersExit ==
    /\ [][(pc = "start" /\ MultiWorker /\ options.threads + n_remote = 0) =>
             (pc' = "exit1" /\ active_workers' = 0 /\ NoTaskEnqueued)]_vars
    /\ []((NoWorkersRemain /\ pc = "exit1") =>
             /\ ExitMessage = "No remote servers available. Exiting."
             /\ options.threads + n_remote = 0
             /\ yielded = <<>> /\ task_queue = <<>>)
    /\ []((NoWorkersRemain /\ pc = "done") =>
             (ExitMessage # "none" <=> found_zero))
    /\ [](NoWorkersRemain => CoordinatorEnds)
    /\ [][NoWorkersRemain => (NoTaskEnqueued /\ pc' # "exit1")]_vars

\* The run has ended without a zero score while a permuter still had seeds:
\* every session had closed during the feeding loop.
C24_Witness ==
    /\ NoWorkersRemain /\ pc = "done" /\ ~found_zero
    /\ n_remote >= 1
    /\ ~gen_done /\ \E k \in 1..Len(iterators) : iterators[k].seeds # <<>>

\* ============================================================ net/server.py
Handles == 1..MaxHandles

\* Server._net_thread is None.
NoThread == 0 - 1

\* Activity: what the threads put on Server._main_queue. Work, WorkDone and
\* NeedMoreWork of server.py are ServerWork, ServerWorkDone, ServerNeedMoreWork
\* here (the seed, the client and the payloads are left out).
ServerWork(h) == [type |-> "Work", handle |-> h]
AddPermuter(h) == [type |-> "AddPermuter", handle |-> h]
RemovePermuter(h) == [type |-> "RemovePermuter", handle |-> h]
ImmediateDisconnect(h) == [type |-> "ImmediateDisconnect", handle |-> h]
Disconnect(h) == [type |-> "Disconnect", handle |-> h]
PermInitFail(h) == [type |-> "PermInitFail", handle |-> h]
PermInitSuccess(h) == [type |-> "PermInitSuccess", handle |-> h]
ServerWorkDone(h) == [type |-> "WorkDone", handle |-> h]
ServerNeedMoreWork == [type |-> "NeedMoreWork"]
NetThreadDisconnected(id) == [type |-> "NetThreadDisconnected", thread_id |-> id]
Heartbeat == [type |-> "Heartbeat"]
Shutdown == [type |-> "Shutdown"]

\* Output: what the server puts on the net thread's controller queue.
OutputInitFail(h) == [type |-> "OutputInitFail", handle |-> h]
OutputInitSuccess(h) == [type |-> "OutputInitSuccess", handle |-> h]
OutputDisconnect(h) == [type |-> "OutputDisconnect", handle |-> h]
OutputNeedMoreWork == [type |-> "OutputNeedMoreWork"]
OutputWork(h) == [type |-> "OutputWork", handle |-> h]

\* IoActivity: (handle, IoMessage) pairs, and the global IoWillSleep.
IoConnect == [type |-> "IoConnect"]
IoDisconnect(reason) == [type |-> "IoDisconnect", reason |-> reason]
IoImmediateDisconnect(reason) == [type |-> "IoImmediateDisconnect", reason |-> reason]
IoWorkDone == [type |-> "IoWorkDone"]
IoWillSleep == [type |-> "IoWillSleep"]

\* What the client can make NetThread._read_one return.
ClientEvents ==
    {Heartbeat} \cup
    UNION {{ServerWork(h), AddPermuter(h), RemovePermuter(h), ImmediateDisconnect(h)} :
             h \in Handles}

\* One call of a Server method: the object (s), what the call made threads
\* put on the main queue (put), what it sent to the evaluator port (eval),
\* put on the controller queue (ctl) and on the io queue (io), and whether it
\* left through an exception (raised).
Call(srv) ==
    [s |-> srv, put |-> <<>>, eval |-> <<>>, ctl |-> <<>>, io |-> <<>>, raised |-> FALSE]

Raise(c) == [c EXCEPT !.raised = TRUE]

\* Server._send_controller: only if there is a net thread.
send_controller(c, msg) ==
    IF c.s.net_thread # NoThread THEN [c EXCEPT !.ctl = Append(@, msg)] ELSE c

\* Server._send_io
send_io(c, handle, io_msg) ==
    [c EXCEPT !.io = Append(@, [handle |-> handle, msg |-> io_msg])]

\* Server._need_work
need_work(c) == send_controller(c, OutputNeedMoreWork)

\* Mutant: the handle leaves the active set without a remove message.
removeSilently(c, handle) == [c EXCEPT !.s.active = @ \ {handle}]

\* Mutant: the remove message is sent and the handle stays active.
removeKeepsActive(c, handle) ==
    [c EXCEPT !.eval = Append(@, [type |-> "remove", id |-> handle]),
              !.s.ev_last[handle] = "remove"]

\* Server._remove: the remove message, then self._active.remove(handle).
remove(c, handle) ==
    [c EXCEPT !.eval = Append(@, [type |-> "remove", id |-> handle]),
              !.s.active = @ \ {handle},
              !.s.ev_last[handle] = "remove"]

\* Server._send_permuter: the add message (its two raw frames are left out);
\* the evaluator will answer with an init message.
send_permuter(c, handle) ==
    [c EXCEPT !.eval = Append(@, [type |-> "add", id |-> handle]),
              !.s.ev_last[handle] = "add",
              !.s.ev_init[handle] = TRUE]

\* self._evaluator_port.send_json({"type": "work", ...}); the evaluator will
\* answer with a result.
send_work(c, handle) ==
    [c EXCEPT !.eval = Append(@, [type |-> "work", id |-> handle]),
              !.s.ev_work[handle] = @ + 1]

\* for handle in list(self._active): self._remove(handle)
RECURSIVE remove_all(_, _)
remove_all(c, handles) ==
    IF handles = {} THEN c
    ELSE LET h == CHOOSE x \in handles : \A y \in handles : x <= y
         IN  remove_all(remove(c, h), handles \ {h})

\* Server._stop_net_thread with NetThread.stop: Shutdown for the writer, the
\* port is shut down, which ends the reader with an exception (it puts
\* NetThreadDisconnected on its way out), both threads are joined.
stop_net_thread(c) ==
    IF c.s.net_thread = NoThread THEN c
    ELSE [c EXCEPT !.put = IF c.s.read_thread = "run"
                           THEN Append(@, NetThreadDisconnected(c.s.net_thread))
                           ELSE @,
                   !.s.read_thread = "dead",
                   !.s.write_thread = "dead",
                   !.s.net_thread = NoThread]

\* Mutant: Work goes to the evaluator whether or not the handle is active.
HandleWorkUnchecked(c, msg) == send_work(c, msg.handle)

HandleWork(c, msg) ==
    IF msg.handle \notin c.s.active THEN need_work(c)
    ELSE send_work(c, msg.handle)

HandleAddPermuter(c, msg) ==
    IF msg.handle \in c.s.active THEN Raise(c)
    ELSE send_io(send_permuter([c EXCEPT !.s.active = @ \cup {msg.handle}], msg.handle),
                 msg.handle, IoConnect)

\* Mutant: RemovePermuter removes whether or not the handle is active.
HandleRemovePermuterUnchecked(c, msg) ==
    send_io(remove(c, msg.handle), msg.handle, IoDisconnect("disconnected"))

HandleRemovePermuter(c, msg) ==
    IF msg.handle \notin c.s.active THEN c
    ELSE send_io(remove(c, msg.handle), msg.handle, IoDisconnect("disconnected"))

HandleDisconnect(c, msg) ==
    IF msg.handle \notin c.s.active THEN c
    ELSE send_controller(
             send_io(remove(c, msg.handle), msg.handle, IoDisconnect("kicked")),
             OutputDisconnect(msg.handle))

HandleImmediateDisconnect(c, msg) ==
    IF msg.handle \in c.s.active THEN Raise(c)
    ELSE send_controller(
             send_io(c, msg.handle, IoImmediateDisconnect("sent garbage message")),
             OutputDisconnect(msg.handle))

\* Mutant: an init failure drops every active handle.
HandlePermInitFailDropsAll(c, msg) ==
    IF msg.handle \notin c.s.active THEN need_work(c)
    ELSE send_controller(
             send_io([c EXCEPT !.s.active = {}],
                     msg.handle, IoDisconnect("failed to compile")),
             OutputInitFail(msg.handle))

HandlePermInitFail(c, msg) ==
    IF msg.handle \notin c.s.active THEN need_work(c)
    ELSE send_controller(
             send_io([c EXCEPT !.s.active = @ \ {msg.handle}],
                     msg.handle, IoDisconnect("failed to compile")),
             OutputInitFail(msg.handle))

HandlePermInitSuccess(c, msg) ==
    IF msg.handle \notin c.s.active THEN need_work(c)
    ELSE send_controller(c, OutputInitSuccess(msg.handle))

\* Mutant: a WorkDone is relayed whether or not its handle is active.
HandleWorkDoneUnchecked(c, msg) ==
    send_controller(send_io(c, msg.handle, IoWorkDone), OutputWork(msg.handle))

HandleWorkDone(c, msg) ==
    IF msg.handle \notin c.s.active THEN need_work(c)
    ELSE send_controller(send_io(c, msg.handle, IoWorkDone), OutputWork(msg.handle))

\* Mutant: NetThreadDisconnected is not checked against the current net thread.
HandleNetThreadDisconnectedAny(c, msg) ==
    stop_net_thread(remove_all(c, c.s.active))

HandleNetThreadDisconnected(c, msg) ==
    IF c.s.net_thread = NoThread \/ msg.thread_id # c.s.net_thread THEN c
    ELSE stop_net_thread(remove_all(c, c.s.active))

\* Server._handle_message
handle_message(c, msg) ==
    CASE msg.type = "Heartbeat" -> c
      [] msg.type = "Work" -> HandleWork(c, msg)
      [] msg.type = "AddPermuter" -> HandleAddPermuter(c, msg)
      [] msg.type = "RemovePermuter" -> HandleRemovePermuter(c, msg)
      [] msg.type = "Disconnect" -> HandleDisconnect(c, msg)
      [] msg.type = "ImmediateDisconnect" -> HandleImmediateDisconnect(c, msg)
      [] msg.type = "PermInitFail" -> HandlePermInitFail(c, msg)
      [] msg.type = "PermInitSuccess" -> HandlePermInitSuccess(c, msg)
      [] msg.type = "WorkDone" -> HandleWorkDone(c, msg)
      [] msg.type = "NeedMoreWork" -> need_work(c)
      [] msg.type = "NetThreadDisconnected" -> HandleNetThreadDisconnected(c, msg)

\* ---------------------------------------------------- SpecServer: Server
\* A thread can put one more event on the main queue.
QueueHasRoom == Len(main_queue) < MaxQueue

\* The variables of the coordinator, which does not run in this process.
NoRunAt(where) ==
    /\ permuter_seeds = <<>> /\ iterators = <<>> /\ i = 0
    /\ gen_done = FALSE /\ yielded = <<>>
    /\ options = [threads |-> 0, use_network |-> FALSE, stop_on_zero |-> FALSE,
                  abort_exceptions |-> FALSE, print_diffs |-> FALSE]
    /\ n_remote = 0
    /\ pc = where
    /\ task_queue = <<>> /\ feedback_queue = <<>>
    /\ active_workers = 0 /\ found_zero = FALSE
    /\ best_score = <<>> /\ iteration = 0 /\ errors = 0 /\ output_dirs = <<>>
    /\ w_pc = <<>> /\ should_block = <<>> /\ w_item = <<>> /\ w_best = <<>>
    /\ r_pc = <<>> /\ r_tasks = <<>> /\ r_need = <<>>
    /\ taken = <<>> /\ wd_made = <<>> /\ wd_outputs = <<>> /\ wd_scored = <<>>

NoRun == NoRunAt("server")

run_vars == <<cycle_vars, main_vars, queue_vars, score_vars, worker_vars, remote_vars,
              hist_vars>>

\* Nothing handled yet.
NoEvent ==
    [msg |-> None, active |-> {}, net_thread |-> NoThread,
     eval |-> <<>>, ctl |-> <<>>, io |-> <<>>, raised |-> FALSE, sleep |-> FALSE]

\* Server.__init__; the evaluator behind evaluator_port knows no permuter.
ServerInit ==
    /\ NoRun
    /\ NoUnits
    /\ server = [state |-> "notstarted", net_thread |-> NoThread,
                 next_net_thread_id |-> 0, active |-> {},
                 main_loop |-> "none", read_thread |-> "none", write_thread |-> "none",
                 ev_last |-> [h \in Handles |-> "none"],
                 ev_init |-> [h \in Handles |-> FALSE],
                 ev_work |-> [h \in Handles |-> 0],
                 sent |-> 0, asked |-> 0, kicks |-> 0]
    /\ main_queue = <<>>
    /\ last = NoEvent

\* Server.start: the net thread with its reader and writer, the evaluator
\* reader and the main loop thread.
ServerStart ==
    /\ server.state = "notstarted"
    /\ server' = [server EXCEPT !.state = "started",
                                !.net_thread = server.next_net_thread_id,
                                !.next_net_thread_id = @ + 1,
                                !.read_thread = "run", !.write_thread = "run",
                                !.main_loop = "run"]
    /\ UNCHANGED <<main_queue, last, run_vars, unit_vars>>

\* NetThread.read_loop: one message read and put on the main queue.
ClientSend ==
    /\ server.read_thread = "run" /\ server.sent < MaxClientEvents /\ QueueHasRoom
    /\ \E msg \in ClientEvents : main_queue' = Append(main_queue, msg)
    /\ server' = [server EXCEPT !.sent = @ + 1]
    /\ UNCHANGED <<last, run_vars, unit_vars>>

\* NetThread.read_loop: EOF, or _read_one raises (Bad message type, a
\* missing property): NetThreadDisconnected and the reader ends.
ReadFail ==
    /\ server.read_thread = "run" /\ QueueHasRoom
    /\ main_queue' = Append(main_queue, NetThreadDisconnected(server.next_net_thread_id - 1))
    /\ server' = [server EXCEPT !.read_thread = "dead"]
    /\ UNCHANGED <<last, run_vars, unit_vars>>

\* NetThread.write_loop: _write_one raises: NetThreadDisconnected and the
\* writer ends; the reader goes on.
WriteFail ==
    /\ server.write_thread = "run" /\ QueueHasRoom
    /\ main_queue' = Append(main_queue, NetThreadDisconnected(server.next_net_thread_id - 1))
    /\ server' = [server EXCEPT !.write_thread = "dead"]
    /\ UNCHANGED <<last, run_vars, unit_vars>>

\* _do_read_eval_loop: the evaluator's init message for an added permuter.
EvalInit ==
    /\ server.main_loop # "none" /\ QueueHasRoom
    /\ \E h \in Handles, ok \in BOOLEAN :
         /\ server.ev_init[h]
         /\ main_queue' = Append(main_queue,
                                 IF ok THEN PermInitSuccess(h) ELSE PermInitFail(h))
         /\ server' = [server EXCEPT !.ev_init[h] = FALSE]
    /\ UNCHANGED <<last, run_vars, unit_vars>>

\* _do_read_eval_loop: the evaluator's result for a work message.
EvalResult ==
    /\ server.main_loop # "none" /\ QueueHasRoom
    /\ \E h \in Handles :
         /\ server.ev_work[h] > 0
         /\ main_queue' = Append(main_queue, ServerWorkDone(h))
         /\ server' = [server EXCEPT !.ev_work[h] = @ - 1]
    /\ UNCHANGED <<last, run_vars, unit_vars>>

\* _do_read_eval_loop: the evaluator's need_work.
EvalNeedWork ==
    /\ server.main_loop # "none" /\ server.asked < MaxEvalNeedWork /\ QueueHasRoom
    /\ main_queue' = Append(main_queue, ServerNeedMoreWork)
    /\ server' = [server EXCEPT !.asked = @ + 1]
    /\ UNCHANGED <<last, run_vars, unit_vars>>

\* Server.remove_permuter, called by the user interface.
RemoveByUser ==
    /\ server.state = "started" /\ server.kicks < MaxKicks /\ QueueHasRoom
    /\ \E h \in Handles : main_queue' = Append(main_queue, Disconnect(h))
    /\ server' = [server EXCEPT !.kicks = @ + 1]
    /\ UNCHANGED <<last, run_vars, unit_vars>>

\* Server.stop, called by another thread.
ServerStop ==
    /\ server.state = "started"
    /\ LET c == stop_net_thread(Call([server EXCEPT !.state = "finished"]))
       IN  /\ server' = c.s
           /\ main_queue' = Append(main_queue, Shutdown) \o c.put
    /\ UNCHANGED <<last, run_vars, unit_vars>>

\* Mutant: IoWillSleep whenever the main queue is empty.
will_sleepOnEmptyQueue(srv, queue) == queue = <<>>

\* _main_loop: not self._active and self._main_queue.empty()
will_sleep(srv, queue) == srv.active = {} /\ queue = <<>>

\* One iteration of Server._main_loop: get, break on Shutdown, else
\* _handle_message and the global IoWillSleep (last.sleep) if nothing is
\* active and the queue is empty. An exception of _handle_message ends the
\* main loop thread. last.io is what _handle_message put on the io queue.
MainLoopStep ==
    /\ server.main_loop = "run" /\ main_queue # <<>>
    /\ LET msg == Head(main_queue)
           c == IF msg.type = "Shutdown" THEN Call(server)
                ELSE handle_message(Call(server), msg)
           queue == Tail(main_queue) \o c.put
           sleep == msg.type # "Shutdown" /\ ~c.raised /\ will_sleep(c.s, queue)
       IN  /\ server' = [c.s EXCEPT !.main_loop =
                            IF msg.type = "Shutdown" THEN "stopped"
                            ELSE IF c.raised THEN "dead" ELSE "run"]
           /\ main_queue' = queue
           /\ last' = [msg |-> msg, active |-> server.active,
                       net_thread |-> server.net_thread,
                       eval |-> c.eval, ctl |-> c.ctl,
                       io |-> c.io,
                       raised |-> c.raised, sleep |-> sleep]
    /\ UNCHANGED <<run_vars, unit_vars>>

ServerNext ==
    \/ ServerStart \/ ClientSend \/ ReadFail \/ WriteFail
    \/ EvalInit \/ EvalResult \/ EvalNeedWork
    \/ RemoveByUser \/ ServerStop
    \/ MainLoopStep

SpecServer == ServerInit /\ [][ServerNext]_vars

\* --------------------------------------------------- claims on the server
Count(seq, m) == Cardinality({k \in 1..Len(seq) : seq[k] = m})

\* The last handled event is of this type and names a handle.
LastIs(type) == last.msg.type = type

C15_ActiveMeansAdded ==
    /\ [](\A h \in Handles : h \in server.active => server.ev_last[h] = "add")
    /\ [][\A h \in Handles :
            (h \in server.active /\ h \notin server'.active) =>
               \/ Count(last'.eval, [type |-> "remove", id |-> h]) = 1
               \/ last'.msg = PermInitFail(h)]_vars

\* The user removed one of two active permuters: a remove was sent for it,
\* the other one is still active.
C15_Witness ==
    /\ LastIs("Disconnect") /\ last.msg.handle \in last.active
    /\ Cardinality(last.active) = 2
    /\ server.ev_last[last.msg.handle] = "remove"

\* C16 as stated: on PermInitFail for an active handle exactly one
\* OutputInitFail, for that handle, is emitted and exactly that handle leaves
\* the active set.
C16_InitFailHitsOneHandle ==
    (LastIs("PermInitFail") /\ last.msg.handle \in last.active) =>
        /\ last.ctl = <<OutputInitFail(last.msg.handle)>>
        /\ server.active = last.active \ {last.msg.handle}

\* C16 amended: exactly that handle leaves the active set; exactly one
\* OutputInitFail, for that handle, is emitted if there is a net thread, and
\* none if the net thread has been stopped. Work and WorkDone for a handle
\* that is active are relayed (WorkDone to the net thread if there is one).
C16_InitFailHitsOneHandleIfConnected ==
    /\ (LastIs("PermInitFail") /\ last.msg.handle \in last.active) =>
          /\ last.ctl = IF last.net_thread # NoThread
                        THEN <<OutputInitFail(last.msg.handle)>> ELSE <<>>
          /\ server.active = last.active \ {last.msg.handle}
          /\ last.eval = <<>>
    /\ (LastIs("Work") /\ last.msg.handle \in last.active) =>
          /\ last.eval = <<[type |-> "work", id |-> last.msg.handle]>>
          /\ server.active = last.active
    /\ (LastIs("WorkDone") /\ last.msg.handle \in last.active) =>
          /\ last.ctl = IF last.net_thread # NoThread
                        THEN <<OutputWork(last.msg.handle)>> ELSE <<>>
          /\ server.active = last.active

\* An init failure for one of two active handles, with the net thread running.
C16_Witness ==
    /\ LastIs("PermInitFail") /\ last.msg.handle \in last.active
    /\ Cardinality(last.active) = 2 /\ last.net_thread # NoThread

\* C17: NetThreadDisconnected from the current net thread sends exactly one
\* remove per active handle, empties the active set and stops the net
\* thread; any other NetThreadDisconnected changes nothing.
C17_DisconnectRemovesAll ==
    LastIs("NetThreadDisconnected") =>
        IF last.net_thread # NoThread /\ last.msg.thread_id = last.net_thread
        THEN /\ \A h \in last.active :
                   Count(last.eval, [type |-> "remove", id |-> h]) = 1
             /\ Len(last.eval) = Cardinality(last.active)
             /\ server.active = {}
             /\ server.net_thread = NoThread
             /\ server.read_thread = "dead" /\ server.write_thread = "dead"
        ELSE /\ last.eval = <<>> /\ last.ctl = <<>> /\ last.io = <<>>
             /\ server.active = last.active
             /\ last.net_thread = NoThread => server.net_thread = NoThread

\* The current net thread reported its end while two handles were active.
C17_Witness ==
    /\ LastIs("NetThreadDisconnected")
    /\ last.net_thread # NoThread /\ last.msg.thread_id = last.net_thread
    /\ Cardinality(last.active) = 2

C19_ViolationEndsSession ==
    LastIs("ImmediateDisconnect") =>
        /\ ~last.raised
        /\ last.msg.handle \notin server.active
        /\ last.net_thread # NoThread =>
               last.ctl = <<OutputDisconnect(last.msg.handle)>>

\* C20: after handling an event the server emits IoWillSleep exactly if the
\* active set is empty and the main queue is empty; never while a handle is
\* active.
C20_SleepWhenIdle ==
    [][(MainLoopStep /\ Head(main_queue).type # "Shutdown") =>
          /\ last'.sleep <=> (server'.active = {} /\ main_queue' = <<>>)
          /\ last'.sleep => server'.active = {}]_vars

\* The last active handle was removed with nothing waiting: IoWillSleep.
C20_Witness ==
    /\ LastIs("RemovePermuter") /\ last.active # {}
    /\ server.active = {} /\ last.sleep

\* The work message the server sends to the evaluator for handle h.
WorkMsg(h) == [type |-> "work", id |-> h]

\* C27: a work message for a handle h goes to the evaluator only while the
\* last add or remove message sent for h is an add, and in the order in which
\* the Work events are handled: it is sent, alone, in the very step that
\* handles a Work event for h, and every Work for an active handle sends one.
C27_WorkAfterAddInOrder ==
    [][MainLoopStep =>
         \A h \in Handles :
             /\ Count(last'.eval, WorkMsg(h)) > 0 =>
                  /\ server.ev_last[h] = "add"
                  /\ Head(main_queue) = ServerWork(h)
                  /\ last'.eval = <<WorkMsg(h)>>
                  /\ server'.ev_work[h] = server.ev_work[h] + 1
                  /\ server'.ev_last = server.ev_last
             /\ (Head(main_queue) = ServerWork(h) /\ h \in server.active) =>
                  last'.eval = <<WorkMsg(h)>>]_vars

\* The second of two Work events for one handle has been handled, and the
\* evaluator has answered neither yet.
C27_Witness ==
    /\ LastIs("Work") /\ last.msg.handle \in last.active
    /\ last.eval = <<WorkMsg(last.msg.handle)>>
    /\ server.ev_work[last.msg.handle] = 2

\* The last handled event came from the evaluator and names a handle that
\* was not active then.
LastIsStaleEvalEvent ==
    /\ last.msg.type \in {"WorkDone", "PermInitSuccess", "PermInitFail"}
    /\ last.msg.handle \notin last.active

CandidateScores == ScoreValues \cup {PENALTY_INF}

WriteInit ==
    /\ NoRunAt("write_candidate")
    /\ ServerIdle
    /\ startup = <<>> /\ race = <<>> /\ wire = <<>> /\ docker = <<>> /\ repro = <<>>
    /\ perm_dir \in {[dirs |-> d, created |-> <<>>] :
                       d \in SUBSET (CandidateScores \X (1..MaxCtr))}

\* write_candidate(perm, result); created gets the directories that are
\* there after the call and were not before it.
WriteCandidate ==
    /\ Len(perm_dir.created) < MaxWrites
    /\ \E s \in CandidateScores :
         LET after == write_candidate(perm_dir.dirs, Candidate(s))
         IN  perm_dir' = [dirs |-> after,
                          created |-> Append(perm_dir.created, after \ perm_dir.dirs)]
    /\ UNCHANGED <<run_vars, server_vars, startup, race, wire, docker, repro>>

WriteNext == WriteCandidate

SpecWrite == WriteInit /\ [][WriteNext]_vars

\* The directories of perm.dir before the k-th call.
DirsBefore(k) ==
    perm_dir.dirs \ UNION {perm_dir.created[j] : j \in k..Len(perm_dir.created)}

Magic == [k \in 1..MagicLen |-> 0]

\* What port.receive() gives: the magic bytes, the magic bytes with one byte
\* changed, or NUL bytes of another length.
Replies ==
    {Magic}
    \cup {[Magic EXCEPT ![k] = b] : k \in 1..MagicLen, b \in 1..MaxByte}
    \cup {[k \in 1..n |-> 0] : n \in {0, 1, MagicLen - 1, MagicLen + 1}}

NumCoresMsg(n) == [num_cores |-> n]

StartInit ==
    /\ NoRunAt("start_evaluator")
    /\ ServerIdle
    /\ perm_dir = <<>> /\ race = <<>> /\ wire = <<>> /\ docker = <<>> /\ repro = <<>>
    /\ startup \in {[pc |-> "send_magic", num_cores |-> n, open |-> TRUE,
                     sent |-> <<>>, received |-> FALSE, reply |-> <<>>,
                     result |-> "none"] :
                      n \in 1..MaxCores}

\* except: port.shutdown(); raise
StartFailed(st) == [st EXCEPT !.pc = "raised", !.open = FALSE, !.result = "raised"]

\* port.send(magic), which may raise.
StartSendMagic ==
    /\ startup.pc = "send_magic"
    /\ \/ startup' = [startup EXCEPT !.pc = "receive", !.sent = Append(@, Magic)]
       \/ startup' = StartFailed(startup)
    /\ UNCHANGED <<run_vars, server_vars, perm_dir, race, wire, docker, repro>>

\* Mutant: the reply is checked for its length only.
StartReceiveChecksLength ==
    /\ startup.pc = "receive"
    /\ \/ \E r \in Replies :
            startup' = IF Len(r) # Len(Magic)
                       THEN StartFailed([startup EXCEPT !.received = TRUE, !.reply = r])
                       ELSE [startup EXCEPT !.pc = "send_json", !.received = TRUE,
                                             !.reply = r]
       \/ startup' = StartFailed(startup)
    /\ UNCHANGED <<run_vars, server_vars, perm_dir, race, wire, docker, repro>>

\* r = port.receive(), which may raise; if r != magic: raise Exception(..)
StartReceive ==
    /\ startup.pc = "receive"
    /\ \/ \E r \in Replies :
            startup' = IF r # Magic
                       THEN StartFailed([startup EXCEPT !.received = TRUE, !.reply = r])
                       ELSE [startup EXCEPT !.pc = "send_json", !.received = TRUE,
                                             !.reply = r]
       \/ startup' = StartFailed(startup)
    /\ UNCHANGED <<run_vars, server_vars, perm_dir, race, wire, docker, repro>>

\* port.send_json({"num_cores": options.num_cores}), which may raise;
\* print("Started."); return port
StartSendJson ==
    /\ startup.pc = "send_json"
    /\ \/ startup' = [startup EXCEPT !.pc = "returned", !.result = "port",
                        !.sent = Append(@, NumCoresMsg(startup.num_cores))]
       \/ startup' = StartFailed(startup)
    /\ UNCHANGED <<run_vars, server_vars, perm_dir, race, wire, docker, repro>>

StartNext == StartSendMagic \/ StartReceive \/ StartSendJson

SpecStart == StartInit /\ [][StartNext]_vars

\* C25: start_evaluator returns a port only after the sanity handshake: it
\* sends the 1000 NUL bytes first, it sends the num_cores message and returns
\* the port (not shut down) only if exactly these bytes came back, and if
\* other bytes came back it shuts the port down, has sent no num_cores
\* message and raises without returning a port.
C25_PortOnlyAfterHandshake ==
    /\ startup.sent # <<>> =>
         /\ startup.sent[1] = Magic /\ Len(Magic) = 1000
         /\ \A k \in 1..Len(Magic) : Magic[k] = 0
    /\ Len(startup.sent) >= 2 =>
         /\ startup.sent = <<Magic, NumCoresMsg(startup.num_cores)>>
         /\ startup.received /\ startup.reply = Magic
    /\ startup.result = "port" =>
         /\ startup.open
         /\ startup.received /\ startup.reply = Magic
         /\ startup.sent = <<Magic, NumCoresMsg(startup.num_cores)>>
    /\ (startup.received /\ startup.reply # Magic) =>
         /\ ~startup.open
         /\ startup.result = "raised"
         /\ startup.sent = <<Magic>>

\* The reply had the right length and one byte that is not NUL: the port was
\* shut down and the exception raised.
C25_Witness ==
    /\ startup.result = "raised"
    /\ startup.received
    /\ Len(startup.reply) = Len(Magic)
    /\ startup.reply # Magic

\* ======================================== Server.stop() beside the main loop
\* SpecStop: the main-loop thread and a thread that calls Server.stop(), one
\* step per access to self._net_thread (the interpreter may switch threads
\* between any two bytecodes, and NetThread.stop() blocks in its joins).
\* The events looked at: NeedMoreWork (a send to the controller) and
\* NetThreadDisconnected of the one net thread, whose thread_id is 0.
RaceEvents == {ServerNeedMoreWork, NetThreadDisconnected(0)}

RECURSIVE SeqsUpTo(_, _)
SeqsUpTo(S, n) ==
    IF n = 0 THEN {<<>>}
    ELSE LET shorter == SeqsUpTo(S, n - 1)
         IN  shorter \cup {Append(q, x) : q \in shorter, x \in S}

\* After Server.start(): the net thread 0 is there, the main loop runs.
StopInit ==
    /\ NoRunAt("server")
    /\ ServerIdle
    /\ perm_dir = <<>> /\ startup = <<>> /\ wire = <<>> /\ docker = <<>> /\ repro = <<>>
    /\ race \in {[net_thread |-> 0, state |-> "started", queue |-> q,
                  active |-> a, msg |-> None,
                  main |-> "get", stop |-> "idle",
                  stops |-> 0, sends |-> 0, on_none |-> FALSE] :
                   q \in SeqsUpTo(RaceEvents, MaxRaceEvents), a \in SUBSET Handles}

RaceUnchanged ==
    UNCHANGED <<run_vars, server_vars, perm_dir, startup, wire, docker, repro>>

\* _main_loop: msg = self._main_queue.get(); break on Shutdown; _handle_message
\* up to its first look at self._net_thread.
MainGet ==
    /\ race.main = "get" /\ race.queue # <<>>
    /\ LET msg == Head(race.queue)
       IN  race' = [race EXCEPT
                      !.queue = Tail(@), !.msg = msg,
                      !.main = IF msg.type = "Shutdown" THEN "stopped"
                               ELSE IF msg.type = "NeedMoreWork" THEN "send_if"
                               ELSE "nd_if"]
    /\ RaceUnchanged

\* _send_controller: if self._net_thread:
MainSendIf ==
    /\ race.main = "send_if"
    /\ race' = [race EXCEPT !.main = IF race.net_thread = NoThread THEN "get"
                                     ELSE "send_call"]
    /\ RaceUnchanged

\* _send_controller: self._net_thread.send_controller(msg); on None the
\* AttributeError ends the main-loop thread.
MainSendCall ==
    /\ race.main = "send_call"
    /\ race' = IF race.net_thread = NoThread
               THEN [race EXCEPT !.main = "dead", !.on_none = TRUE]
               ELSE [race EXCEPT !.main = "get", !.sends = @ + 1]
    /\ RaceUnchanged

\* NetThreadDisconnected: if self._net_thread is None
MainDisconnectedIf ==
    /\ race.main = "nd_if"
    /\ race' = [race EXCEPT !.main = IF race.net_thread = NoThread THEN "get"
                                     ELSE "nd_id"]
    /\ RaceUnchanged

\* NetThreadDisconnected: or msg.thread_id != self._net_thread.thread_id;
\* then _remove for every active handle.
MainDisconnectedId ==
    /\ race.main = "nd_id"
    /\ race' = IF race.net_thread = NoThread
               THEN [race EXCEPT !.main = "dead", !.on_none = TRUE]
               ELSE IF race.msg.thread_id # race.net_thread
               THEN [race EXCEPT !.main = "get"]
               ELSE [race EXCEPT !.main = "stop_if", !.active = {}]
    /\ RaceUnchanged

\* _stop_net_thread, by the main loop ("main") or by stop() ("stop"):
\* if self._net_thread is None: return
StopNetThreadIf(who) ==
    /\ race[who] = "stop_if"
    /\ race' = [race EXCEPT ![who] = IF race.net_thread = NoThread
                                     THEN (IF who = "main" THEN "get" ELSE "done")
                                     ELSE "stop_call"]
    /\ RaceUnchanged

\* _stop_net_thread: self._net_thread.stop()
StopNetThreadCall(who) ==
    /\ race[who] = "stop_call"
    /\ race' = IF race.net_thread = NoThread
               THEN [race EXCEPT ![who] = "dead", !.on_none = TRUE]
               ELSE [race EXCEPT ![who] = "stop_clear", !.stops = @ + 1]
    /\ RaceUnchanged

\* _stop_net_thread: self._net_thread = None
StopNetThreadClear(who) ==
    /\ race[who] = "stop_clear"
    /\ race' = [race EXCEPT ![who] = IF who = "main" THEN "get" ELSE "done",
                            !.net_thread = NoThread]
    /\ RaceUnchanged

\* Server.stop(): self._state = "finished"; self._main_queue.put(Shutdown())
StopCalled ==
    /\ race.stop = "idle" /\ race.state = "started"
    /\ race' = [race EXCEPT !.state = "finished", !.stop = "stop_if",
                            !.queue = Append(@, Shutdown)]
    /\ RaceUnchanged

StopNext ==
    \/ MainGet \/ MainSendIf \/ MainSendCall
    \/ MainDisconnectedIf \/ MainDisconnectedId
    \/ StopCalled
    \/ \E who \in {"main", "stop"} :
         StopNetThreadIf(who) \/ StopNetThreadCall(who) \/ StopNetThreadClear(who)

SpecStop == StopInit /\ [][StopNext]_vars

\* C26: the net thread reference is used by the main-loop thread alone: no
\* interleaving of Server.stop() with the main loop handling
\* NetThreadDisconnected or sending to the controller stops the net thread
\* twice, or uses the reference after it was cleared.
C26_NoDoubleStopNoClearedUse ==
    race.stops <= 1 /\ ~race.on_none

\* C32: no sequence of client messages makes the main loop stop handling
\* events: after it has handled an event that came from the client (an add
\* for an active handle and an unparsable add for an active handle included)
\* the main loop still runs, and it stops only when it dequeues Shutdown.
C32_ClientCannotStopMainLoop ==
    /\ [][(MainLoopStep /\ Head(main_queue) \in ClientEvents) =>
            server'.main_loop = "run"]_vars
    /\ [][(server.main_loop = "run" /\ server'.main_loop # "run") =>
            (MainLoopStep /\ Head(main_queue) = Shutdown)]_vars

\* ================================================== the frames on the ports
\* SpecFrames: the main loop writes to the evaluator port and puts Outputs on
\* the controller queue, the net thread's writer takes them and writes to the
\* net port; one step per frame written, the two threads interleaved freely.
JsonFrame(m) == [kind |-> "json", msg |-> m]
RawFrame(m, part) == [kind |-> "raw", of |-> m, part |-> part]

\* _send_permuter: send_json(add), send(source), send(target_o_bin); the
\* other evaluator messages are one send_json.
EvalFrames(m) ==
    IF m.type = "add"
    THEN <<JsonFrame(m), RawFrame(m, "source"), RawFrame(m, "target_o_bin")>>
    ELSE <<JsonFrame(m)>>

RECURSIVE AllEvalFrames(_)
AllEvalFrames(msgs) ==
    IF msgs = <<>> THEN <<>> ELSE EvalFrames(Head(msgs)) \o AllEvalFrames(Tail(msgs))

\* NetThread._write_one: send_json, and for an OutputWork whose
\* compressed_source is not None, send(compressed_source).
NetFrames(item, has_source) ==
    IF item.type = "OutputWork" /\ has_source
    THEN <<JsonFrame([type |-> "OutputWork", handle |-> item.handle,
                      has_source |-> TRUE]),
           RawFrame(item, "compressed_source")>>
    ELSE <<JsonFrame(item)>>

WireEvents ==
    UNION {{AddPermuter(h), ServerWork(h), ServerWorkDone(h), RemovePermuter(h)} :
             h \in Handles}

\* The Server after start(), nothing active.
StartedServer ==
    [state |-> "started", net_thread |-> 0, next_net_thread_id |-> 1, active |-> {},
     main_loop |-> "run", read_thread |-> "run", write_thread |-> "run",
     ev_last |-> [h \in Handles |-> "none"],
     ev_init |-> [h \in Handles |-> FALSE],
     ev_work |-> [h \in Handles |-> 0],
     sent |-> 0, asked |-> 0, kicks |-> 0]

FramesInit ==
    /\ NoRunAt("server")
    /\ ServerIdle
    /\ perm_dir = <<>> /\ startup = <<>> /\ race = <<>> /\ docker = <<>> /\ repro = <<>>
    /\ wire \in {[srv |-> StartedServer, queue |-> q, ctl |-> <<>>,
                  eval_out |-> <<>>, net_out |-> <<>>,
                  main |-> "run", main_frames |-> <<>>, main_puts |-> <<>>,
                  writer |-> "run", writer_frames |-> <<>>] :
                   q \in SeqsUpTo(WireEvents, MaxWireEvents)}

WireUnchanged ==
    UNCHANGED <<run_vars, server_vars, perm_dir, startup, race, docker, repro>>

\* _main_loop: get and _handle_message, up to the first write to a port.
WireMainHandle ==
    /\ wire.main = "run" /\ wire.main_frames = <<>> /\ wire.main_puts = <<>>
    /\ wire.queue # <<>>
    /\ LET c == handle_message(Call(wire.srv), Head(wire.queue))
       IN  wire' = [wire EXCEPT
                      !.queue = Tail(@), !.srv = c.s,
                      !.main = IF c.raised THEN "dead" ELSE "run",
                      !.main_frames = AllEvalFrames(c.eval),
                      !.main_puts = c.ctl]
    /\ WireUnchanged

\* The main loop: one send_json or send on the evaluator port, which may raise.
WireMainSend ==
    /\ wire.main = "run" /\ wire.main_frames # <<>>
    /\ \/ wire' = [wire EXCEPT !.eval_out = Append(@, Head(wire.main_frames)),
                               !.main_frames = Tail(@)]
       \/ wire' = [wire EXCEPT !.main = "dead"]
    /\ WireUnchanged

\* Mutant: the main loop writes an OutputNeedMoreWork to the net port itself.
WireMainPutWritesNeedWork ==
    /\ wire.main = "run" /\ wire.main_frames = <<>> /\ wire.main_puts # <<>>
    /\ LET item == Head(wire.main_puts)
       IN  wire' = IF item = OutputNeedMoreWork
                   THEN [wire EXCEPT !.net_out = Append(@, JsonFrame(item)),
                                     !.main_puts = Tail(@)]
                   ELSE [wire EXCEPT !.ctl = Append(@, item), !.main_puts = Tail(@)]
    /\ WireUnchanged

\* _send_controller: self._net_thread.send_controller(msg), a put on the
\* controller queue.
WireMainPut ==
    /\ wire.main = "run" /\ wire.main_frames = <<>> /\ wire.main_puts # <<>>
    /\ wire' = [wire EXCEPT !.ctl = Append(@, Head(wire.main_puts)),
                            !.main_puts = Tail(@)]
    /\ WireUnchanged

\* write_loop: item = self._controller_queue.get(); _write_one up to its
\* first write.
WireWriterGet ==
    /\ wire.writer = "run" /\ wire.writer_frames = <<>>
    /\ wire.ctl # <<>>
    /\ \E has_source \in BOOLEAN :
         wire' = [wire EXCEPT !.ctl = Tail(@),
                              !.writer_frames = NetFrames(Head(wire.ctl), has_source)]
    /\ WireUnchanged

\* The writer: one send_json or send on the net port, which may raise.
WireWriterSend ==
    /\ wire.writer = "run" /\ wire.writer_frames # <<>>
    /\ \/ wire' = [wire EXCEPT !.net_out = Append(@, Head(wire.writer_frames)),
                               !.writer_frames = Tail(@)]
       \/ wire' = [wire EXCEPT !.writer = "dead"]
    /\ WireUnchanged

FramesNext ==
    \/ WireMainHandle \/ WireMainSend \/ WireMainPut
    \/ WireWriterGet \/ WireWriterSend

SpecFrames == FramesInit /\ [][FramesNext]_vars

\* The frames out[k + 1 ..] are the frames `expected`, as far as they have
\* been written; what is missing is what the sender has still to write, or
\* the sender has died in a write.
FollowedBy(out, k, expected, state, pending) ==
    /\ \A j \in 1..Len(expected) : k + j <= Len(out) => out[k + j] = expected[j]
    /\ k + Len(expected) > Len(out) =>
         \/ state = "dead"
         \/ pending = SubSeq(expected, Len(out) - k + 1, Len(expected))

\* C29: raw frames stay next to the JSON that refers to them: on the
\* evaluator port an add is followed by exactly its two raw frames (source,
\* target object) and every raw frame there is one of these; on the net port
\* an OutputWork with a source is followed by its compressed-source frame, and
\* every raw frame there follows such an OutputWork.
C29_RawFramesAdjacent ==
    /\ \A k \in 1..Len(wire.eval_out) :
         LET f == wire.eval_out[k]
         IN  /\ (f.kind = "json" /\ f.msg.type = "add") =>
                   FollowedBy(wire.eval_out, k, Tail(EvalFrames(f.msg)),
                              wire.main, wire.main_frames)
             /\ (f.kind = "json" /\ f.msg.type # "add" /\ k < Len(wire.eval_out)) =>
                   wire.eval_out[k + 1].kind = "json"
             /\ f.kind = "raw" =>
                   /\ k > 1
                   /\ IF f.part = "source"
                      THEN wire.eval_out[k - 1] = JsonFrame(f.of)
                      ELSE wire.eval_out[k - 1] = RawFrame(f.of, "source")
                   /\ f.part = "source" \/ k = Len(wire.eval_out)
                        \/ wire.eval_out[k + 1].kind = "json"
    /\ \A k \in 1..Len(wire.net_out) :
         LET f == wire.net_out[k]
             with_source == f.kind = "json" /\ f.msg.type = "OutputWork"
                            /\ "has_source" \in DOMAIN f.msg
         IN  /\ with_source =>
                   FollowedBy(wire.net_out, k,
                              <<RawFrame(OutputWork(f.msg.handle), "compressed_source")>>,
                              wire.writer, wire.writer_frames)
             /\ (f.kind = "json" /\ ~with_source /\ k < Len(wire.net_out)) =>
                   wire.net_out[k + 1].kind = "json"
             /\ f.kind = "raw" =>
                   /\ k > 1
                   /\ wire.net_out[k - 1].kind = "json"
                   /\ wire.net_out[k - 1].msg.type = "OutputWork"
                   /\ "has_source" \in DOMAIN wire.net_out[k - 1].msg
                   /\ f.of = OutputWork(wire.net_out[k - 1].msg.handle)
                   /\ k = Len(wire.net_out) \/ wire.net_out[k + 1].kind = "json"

\* The evaluator port has an add with its two frames and then a work; the net
\* port has an OutputWork with its source frame while the main loop has
\* written to the evaluator port since.
C29_Witness ==
    /\ Len(wire.eval_out) >= 4
    /\ wire.eval_out[1].kind = "json" /\ wire.eval_out[1].msg.type = "add"
    /\ wire.eval_out[3].kind = "raw" /\ wire.eval_out[3].part = "target_o_bin"
    /\ wire.eval_out[4].kind = "json" /\ wire.eval_out[4].msg.type = "work"
    /\ Len(wire.net_out) >= 2
    /\ wire.net_out[2].kind = "raw"

\* ============================================================= DockerPort
\* SpecDocker: _receive calls on a DockerPort whose attach socket carries a
\* bounded stream of chunks.
Bytes == 0..MaxByte

RECURSIVE Concat(_)
Concat(seqs) == IF seqs = <<>> THEN <<>> ELSE Head(seqs) \o Concat(Tail(seqs))

\* The u32 big-endian "I" of the header.
PackU32(n) ==
    <<(n \div 16777216) % 256, (n \div 65536) % 256, (n \div 256) % 256, n % 256>>

\* What the Docker engine writes for one chunk: the header, stream id, three
\* bytes of padding and the length, then the data.
ChunkBytes(chunk) == <<chunk.stream, 0, 0, 0>> \o PackU32(Len(chunk.data)) \o chunk.data

Chunks == [stream : 0..MaxStream, data : SeqsUpTo(Bytes, MaxData)]

\* struct.unpack(">BxxxI", header)
UnpackHeader(header) ==
    [stream |-> header[1],
     length |-> header[5] * 16777216 + header[6] * 65536 + header[7] * 256 + header[8]]

Prefix == <<"Docker stderr: ">>

\* The bytes a call asked of the socket are there.
CanRead(d, n) == Len(d.sock) >= n

\* file_read_fixed(self._sock, n): the next n bytes of the socket.
file_read_fixed(d, n) ==
    [data |-> SubSeq(d.sock, 1, n), sock |-> SubSeq(d.sock, n + 1, Len(d.sock))]

DockerInit ==
    /\ NoRunAt("server")
    /\ ServerIdle
    /\ perm_dir = <<>> /\ startup = <<>> /\ race = <<>> /\ wire = <<>>
    /\ repro = <<>>
    /\ docker \in {[sock |-> Concat([k \in 1..Len(cs) |-> ChunkBytes(cs[k])]),
                    stdout_buffer |-> <<>>, stderr |-> <<>>,
                    pc |-> "idle", length |-> 0, ret |-> <<>>,
                    chunks |-> cs, read |-> 0, returned |-> <<>>, calls |-> 0] :
                     cs \in SeqsUpTo(Chunks, MaxChunks)}

DockerUnchanged ==
    UNCHANGED <<run_vars, server_vars, perm_dir, startup, race, wire, repro>>

\* Mutant: the data of every chunk goes to the buffer.
read_oneAnyStream(d) ==
    LET h == file_read_fixed(d, 8)
        header == UnpackHeader(h.data)
        after == [d EXCEPT !.sock = h.sock, !.read = @ + 1]
    IN  IF ~CanRead(after, header.length)
        THEN [after EXCEPT !.pc = "short", !.read = d.read]
        ELSE LET r == file_read_fixed(after, header.length)
             IN  [after EXCEPT !.sock = r.sock, !.stdout_buffer = @ \o r.data]

\* DockerPort._read_one, on a socket that has the 8 bytes of a header.
read_one(d) ==
    LET h == file_read_fixed(d, 8)
        header == UnpackHeader(h.data)
        after == [d EXCEPT !.sock = h.sock, !.read = @ + 1]
    IN  IF header.stream \notin {1, 2}
        THEN [after EXCEPT !.pc = "raised"]
        ELSE IF ~CanRead(after, header.length)
        THEN [after EXCEPT !.pc = "short", !.read = d.read]
        ELSE LET r == file_read_fixed(after, header.length)
             IN  IF header.stream = 1
                 THEN [after EXCEPT !.sock = r.sock, !.stdout_buffer = @ \o r.data]
                 ELSE [after EXCEPT !.sock = r.sock,
                                    !.stderr = @ \o Prefix \o r.data]

\* A call of _receive(length).
DockerReceive ==
    /\ docker.pc = "idle" /\ docker.calls < MaxCalls
    /\ \E length \in 0..MaxRecv :
         docker' = [docker EXCEPT !.pc = "receive", !.length = length, !.calls = @ + 1]
    /\ DockerUnchanged

\* while len(self._stdout_buffer) < length: self._read_one(); a socket with
\* nothing more to read does not let the call go on.
DockerReadOne ==
    /\ docker.pc = "receive"
    /\ Len(docker.stdout_buffer) < docker.length
    /\ docker' = IF CanRead(docker, 8) THEN read_one(docker)
                 ELSE [docker EXCEPT !.pc = "short"]
    /\ DockerUnchanged

\* ret = self._stdout_buffer[:length]; the rest stays in the buffer.
DockerReturn ==
    /\ docker.pc = "receive"
    /\ Len(docker.stdout_buffer) >= docker.length
    /\ docker' = [docker EXCEPT
                    !.pc = "idle",
                    !.ret = SubSeq(docker.stdout_buffer, 1, docker.length),
                    !.stdout_buffer = SubSeq(@, docker.length + 1, Len(@)),
                    !.returned = @ \o SubSeq(docker.stdout_buffer, 1, docker.length)]
    /\ DockerUnchanged

DockerNext == DockerReceive \/ DockerReadOne \/ DockerReturn

SpecDocker == DockerInit /\ [][DockerNext]_vars

\* The data of the chunks of one stream among the first n chunks.
RECURSIVE StreamData(_, _, _)
StreamData(cs, n, stream) ==
    IF n = 0 THEN <<>>
    ELSE StreamData(cs, n - 1, stream) \o
         (IF cs[n].stream = stream THEN cs[n].data ELSE <<>>)

RECURSIVE StderrWrites(_, _)
StderrWrites(cs, n) ==
    IF n = 0 THEN <<>>
    ELSE StderrWrites(cs, n - 1) \o
         (IF cs[n].stream = 2 THEN Prefix \o cs[n].data ELSE <<>>)

\* The header read last is of a chunk that is neither stdout nor stderr.
LastChunkOther == docker.read > 0 /\ docker.chunks[docker.read].stream \notin {1, 2}

\* The chunks whose data has been read.
DataRead == IF docker.pc = "raised" THEN docker.read - 1 ELSE docker.read

\* C30: _receive(n) returns exactly the next n bytes of the container's
\* stdout, whatever the chunking: what the calls returned, followed by what
\* is left in the buffer, is the data of the stream-1 chunks read so far, in
\* order; stderr data goes to stderr only; every return has the length asked;
\* a chunk with another stream id raises, and nothing else does.
C30_ReceiveReturnsStdout ==
    /\ [](/\ docker.returned \o docker.stdout_buffer
               = StreamData(docker.chunks, DataRead, 1)
          /\ docker.stderr = StderrWrites(docker.chunks, DataRead)
          /\ docker.pc = "raised" <=> LastChunkOther)
    /\ [][DockerReturn =>
            /\ Len(docker'.ret) = docker.length
            /\ docker'.returned = docker.returned \o docker'.ret
            /\ docker'.stdout_buffer
                 = SubSeq(docker.stdout_buffer, docker.length + 1,
                          Len(docker.stdout_buffer))]_vars

\* Two calls have returned three bytes that came in two stdout chunks with a
\* stderr chunk between them, and one byte is left for the next call.
C30_Witness ==
    /\ docker.pc = "idle" /\ docker.calls = 2
    /\ Len(docker.returned) = 3
    /\ Len(docker.stdout_buffer) = 1
    /\ docker.stderr # <<>>
    /\ Len(docker.chunks) = 3 /\ docker.chunks[2].stream = 2

\* A chunk of another stream has been read and the call has raised.
C30_WitnessRaised ==
    /\ docker.pc = "raised" /\ docker.returned # <<>>

\* ====================================================== the --seed string
\* SpecSeed: post_score prints the reproducer of a failed evaluation, and a
\* later run is given the printed string as options.force_seed.
DigitChars == <<"0", "1", "2", "3", "4", "5", "6", "7", "8", "9">>
Digits == {DigitChars[k] : k \in 1..10}

RECURSIVE NatStr(_)
NatStr(n) ==
    IF n < 10 THEN <<DigitChars[n + 1]>>
    ELSE NatStr(n \div 10) \o <<DigitChars[(n % 10) + 1]>>

\* str() of an int, as its characters.
str(n) == IF n < 0 THEN <<"-">> \o NatStr(0 - n) ELSE NatStr(n)

\* Mutant: the rng seed first.
seed_strSwapped(seed) ==
    IF seed[1] # 0 THEN str(seed[2]) \o <<",">> \o str(seed[1]) ELSE str(seed[2])

\* post_score: seed_str = str(result.seed[1]), with "{result.seed[0]}," in
\* front of it if result.seed[0] != 0 (seed[1] and seed[2] here).
seed_str(seed) ==
    IF seed[1] # 0 THEN str(seed[1]) \o <<",">> \o str(seed[2]) ELSE str(seed[2])

\* s.split(",")
RECURSIVE split(_)
split(s) ==
    IF \A k \in 1..Len(s) : s[k] # ","
    THEN <<s>>
    ELSE LET k == CHOOSE j \in 1..Len(s) : s[j] = "," /\ \A m \in 1..(j - 1) : s[m] # ","
         IN  <<SubSeq(s, 1, k - 1)>> \o split(SubSeq(s, k + 1, Len(s)))

DigitValue(c) == CHOOSE d \in 0..9 : DigitChars[d + 1] = c

RECURSIVE NatValue(_)
NatValue(s) ==
    IF s = <<>> THEN 0
    ELSE NatValue(SubSeq(s, 1, Len(s) - 1)) * 10 + DigitValue(s[Len(s)])

Unsigned(s) == IF s # <<>> /\ s[1] \in {"-", "+"} THEN Tail(s) ELSE s

\* int() takes a sign and then digits, one at least; anything else is a
\* ValueError.
IsInt(s) == Unsigned(s) # <<>> /\ \A k \in 1..Len(Unsigned(s)) : Unsigned(s)[k] \in Digits

int(s) == IF s[1] = "-" THEN 0 - NatValue(Unsigned(s)) ELSE NatValue(Unsigned(s))

\* The failed evaluation's seed: a (seed index, rng seed) pair, or None.
SeedInit ==
    /\ NoRunAt("server")
    /\ ServerIdle
    /\ perm_dir = <<>> /\ startup = <<>> /\ race = <<>> /\ wire = <<>> /\ docker = <<>>
    /\ repro \in {[pc |-> "failed", has_seed |-> hs, seed |-> <<k, r>>,
                   printed |-> FALSE, seed_str |-> <<>>,
                   forced |-> FALSE, force_seed |-> 0, force_rng_seed |-> 0] :
                    hs \in BOOLEAN,
                    k \in (0 - MaxSeedValue)..MaxSeedValue,
                    r \in (0 - MaxSeedValue)..MaxSeedValue}

SeedUnchanged ==
    UNCHANGED <<run_vars, server_vars, perm_dir, startup, race, wire, docker>>

\* post_score, the EvalError branch: the reproducer, if result.seed is not
\* None.
PrintSeed ==
    /\ repro.pc = "failed"
    /\ repro' = IF repro.has_seed
                THEN [repro EXCEPT !.pc = "printed", !.printed = TRUE,
                                   !.seed_str = seed_str(repro.seed)]
                ELSE [repro EXCEPT !.pc = "printed"]
    /\ SeedUnchanged

\* run_inner with options.force_seed the printed string:
\* seed_parts = list(map(int, options.force_seed.split(","))), the last part
\* is force_rng_seed, and force_seed is 0 for one part, else the first part.
ParseSeed ==
    /\ repro.pc = "printed" /\ repro.printed
    /\ LET parts == split(repro.seed_str)
       IN  repro' =
             IF repro.seed_str = <<>>
             THEN [repro EXCEPT !.pc = "parsed"]
             ELSE IF \E k \in 1..Len(parts) : ~IsInt(parts[k])
             THEN [repro EXCEPT !.pc = "raised"]
             ELSE [repro EXCEPT
                     !.pc = "parsed", !.forced = TRUE,
                     !.force_rng_seed = int(parts[Len(parts)]),
                     !.force_seed = IF Len(parts) = 1 THEN 0 ELSE int(parts[1])]
    /\ SeedUnchanged

SeedNext == PrintSeed \/ ParseSeed

SpecSeed == SeedInit /\ [][SeedNext]_vars

\* C31: the reproducer round-trips: the printed string, given to run_inner as
\* the forced seed, is parsed without an error and gives force_seed = k and
\* force_rng_seed = r for the seed (k, r) it was printed for.
C31_SeedRoundTrips ==
    /\ repro.pc # "raised"
    /\ repro.pc = "parsed" =>
         /\ repro.forced
         /\ repro.force_seed = repro.seed[1]
         /\ repro.force_rng_seed = repro.seed[2]

\* A seed with two digits and a sign has been printed with its index and
\* parsed; so has one with index 0.
C31_Witness ==
    /\ repro.pc = "parsed"
    /\ repro.seed[1] = 10 /\ repro.seed[2] = 0 - 12
    /\ repro.seed_str = <<"1", "0", ",", "-", "1", "2">>

C31_WitnessNoIndex ==
    /\ repro.pc = "parsed"
    /\ repro.seed[1] = 0 /\ repro.seed_str = <<"7">>

====
